---- MODULE Spec2Model ----
(***************************************************************************)
(* The streaming dataplane of hdhr-proxy (package transcoder, type Impl):   *)
(* the per-request stream sessions, the registry maps activeStreams,        *)
(* ffmpegProcesses and connectionActivity, the disconnect watchers, the      *)
(* connection monitor and the shutdown sequence.                            *)
(*                                                                         *)
(* Every goroutine is a process of the model.  A step is one critical       *)
(* section of t.mutex or t.activityMutex, or one blocking call.  Goroutines *)
(* carry no real-time guarantee: between two steps of a goroutine any       *)
(* amount of time may pass (action Tick).                                   *)
(***************************************************************************)
EXTENDS Integers, FiniteSets, Sequences, TLC

\* --- bounds of the model ---------------------------------------------------
NumSessions == 2          \* media requests served during one run
MaxDelivered == 2         \* chunks one session delivers to its client
MaxClock == 4             \* the clock stops counting after this many units
MaxSrc == 2               \* bytes in a reader handed to Helper.Copy
MaxIdLen == 3             \* bytes of a DeviceID in a discovery body
MaxPieces == 3            \* tokens a response body is put together from
MaxErrors == 2            \* AC4 diagnostics one child writes
MaxUnread == 1            \* lines in the pipe of a child's stderr

\* --- program constants -----------------------------------------------------
MaxInactivityDuration == 2   \* t.maxInactivityDuration, in minutes
ShutdownTimeout == 1         \* the timeout of shutdownCtx, in units of ten seconds
errorResetInterval == 3      \* in units of ten seconds
NoColon == -1                \* strings.Index finds no ":"

NoSession == 0               \* a channel that is absent from a map
NoStamp == -1                \* a channel that is absent from connectionActivity

Sessions == 1..NumSessions
Channels == {"5.1", "7.1"}
NoResult == "none"           \* the streaming function has not returned

\* The errors TranscodeChannel and DirectStreamChannel return.
Errors ==
  {"failed to fetch stream", "invalid response from HDHomeRun", "stream interrupted",
   "invalid FFmpeg executable", "failed to start ffmpeg",
   "failed to copy from ffmpeg to response", "ffmpeg process failed"}

NoChannel == "-"

\* r.URL.Path as the pieces MediaHandler tells apart: the prefix "/auto/v" is
\* the pattern of the mux followed by the letter v, the rest is the channel.
AutoV == <<"/auto/", "v">>
UrlPaths == {AutoV \o <<c>> : c \in Channels} \cup {AutoV, <<"/auto/">>, <<"/auto/", "x">>}
NoPath == <<>>

\* The two mutexes of Impl, the goroutines that lock them, and their calls.
Locks == {"mutex", "activityMutex"}
Threads == {"handler 1", "handler 2", "watcher", "monitor", "main", "status"}
NoThread == "-"
LockCalls == [op : {"Lock", "Unlock"}, lock : Locks]

\* A line of the child's stderr, by what the reader looks for in it: "[ac4 @",
\* "substream audio data overread", "Invalid data found when processing
\* input", "Error", and the number of characters that follow the first ":"
\* after "substream audio data overread" (NoColon without such a ":").
Lines ==
  {l \in [ac4 : BOOLEAN, overread : BOOLEAN, invalid : BOOLEAN, error : BOOLEAN,
           tail : {NoColon, 0, 2}] : l.tail # NoColon => l.overread}

\* A lineup from which fetchAC4Channels fills t.ac4Channels: 5.1 carries AC4
\* audio, 7.1 does not.
fullLineup == [c \in Channels |-> c = "5.1"]

\* Every map fetchAC4Channels can leave in t.ac4Channels: a lineup names some of
\* the channels, none when the fetch failed, each with or without AC4 audio.
Lineups == UNION {[known -> BOOLEAN] : known \in SUBSET Channels}

\* The device id a new HDHRProxy holds until discovery replaces it, and the
\* device id of a tuner, as sequences of characters.
DefaultDeviceID == <<"0", "0", "A", "B", "C", "D", "E", "F">>
TunerDeviceID == <<"A", "B", "C", "D", "E", "F", "1", "2">>

\* Strings are sequences of characters.  The configured tuner addresses
\* (-hdhr-ip): 192.168.1.100 and 192.168.1.10.
ExampleTuner == <<"1", "9", "2", ".", "1", "6", "8", ".", "1", ".", "1", "0", "0">>
ShortTuner == <<"1", "9", "2", ".", "1", "6", "8", ".", "1", ".", "1", "0">>
TunerAddresses == {ExampleTuner, ShortTuner}

\* The Host headers of the API requests: proxy.local, proxy.local:8080,
\* proxy.local:80 and 192.168.1.100.
Hosts == {<<"p", "r", "o", "x", "y", ".", "l", "o", "c", "a", "l">>,
          <<"p", "r", "o", "x", "y", ".", "l", "o", "c", "a", "l", ":", "8", "0", "8", "0">>,
          <<"p", "r", "o", "x", "y", ".", "l", "o", "c", "a", "l", ":", "8", "0">>,
          <<"1", "9", "2", ".", "1", "6", "8", ".", "1", ".", "1", "0", "0">>}

\* The flags of main as flag.Parse leaves them: -hdhr-ip (empty when not
\* given), -ffmpeg and -log-level (their defaults when not given).
FlagSets == [hdhrIP : TunerAddresses \cup {<<>>},
             ffmpeg : {"/usr/bin/ffmpeg", "/opt/ffmpeg"},
             logLevel : {"info", "debug"}]

DefaultFlags == [hdhrIP |-> <<>>, ffmpeg |-> "/usr/bin/ffmpeg", logLevel |-> "info"]

\* The environment: HDHR_IP, FFMPEG_PATH and LOG_LEVEL, empty when not set.
Environments == [HDHR_IP : TunerAddresses \cup {<<>>},
                 FFMPEG_PATH : {"", "/usr/local/bin/ffmpeg"},
                 LOG_LEVEL : {"", "warn"}]

NoEnvironment == [HDHR_IP |-> <<>>, FFMPEG_PATH |-> "", LOG_LEVEL |-> ""]

\* The fields of Config that a flag and an environment variable both set.
Configs == [HDHomeRunIP : TunerAddresses \cup {<<>>},
            FFmpegPath : {"/usr/bin/ffmpeg", "/opt/ffmpeg", "/usr/local/bin/ffmpeg"},
            LogLevel : {"info", "debug", "warn"}]

DefaultConfig == [HDHomeRunIP |-> <<>>, FFmpegPath |-> "/usr/bin/ffmpeg", LogLevel |-> "info"]

\* What a reader handed to Helper.Copy holds: up to MaxSrc bytes.
Sources == UNION {[1..n -> {"a", "b"}] : n \in 0..MaxSrc}

\* What Helper.Copy returns, (n, err); NoReturn while it has not returned,
\* which is also the state of an empty resultCh.
Returns == [n : 0..MaxSrc, err : {"none", "nil", "context canceled"}]

NoReturn == [n |-> 0, err |-> "none"]

\* A call of Helper.Copy: src and dst, ctx and whether it was cancelled when
\* the call was made, the goroutine around io.Copy, resultCh, the return.
CopyCalls == [src : Sources, dst : Sources, ctx : {"live", "canceled"},
              canceledAtCall : BOOLEAN, task : {"none", "copying", "done"},
              resultCh : Returns, ret : Returns]

NoCopyCall == [src |-> <<>>, dst |-> <<>>, ctx |-> "live", canceledAtCall |-> FALSE,
               task |-> "none", resultCh |-> NoReturn, ret |-> NoReturn]

\* No request has been served yet.
NoRequest == [body |-> <<>>, host |-> <<>>, text |-> FALSE, length |-> "none"]

\* A string is its bytes; a byte below 0x80 is written as its character, any
\* other as its value.  0xC3 0xA9 encodes U+00E9; 0xC3 or 0xA9 alone and
\* 0xFF are not UTF-8.
RawBytes == {"A", "1", "xC3", "xA9", "xFF"}

\* The bytes of U+FFFD, the replacement character.
ReplacementChar == {"xEF", "xBF", "xBD"}

\* The characters of the strings of this model.
Chars ==
  {"\n", "\r", " ", ".", "0", "1", "2", "3", "4", "5", "6", "8", "9", ":", "A", "B", "C", "D", "E", "F", "a", "c", "d", "e", "l", "o", "p", "r", "t", "v", "x", "y"}

\* The bytes of the strings of this model.
Bytes == Chars \cup RawBytes \cup ReplacementChar

\* The requests: the body the tuner answers with, the Host header of the
\* client, whether the Content-Type is one needsTransformation names, and the
\* Content-Length the tuner declares: below maxInMemorySize (1 MiB) or absent,
\* or at least maxInMemorySize.  A body is a few characters that stand for the
\* whole of it; a body without declared length is taken to be below 1 MiB.
ApiRequests == [body : Seq(Bytes), host : Hosts, text : BOOLEAN, length : {"small", "large"}]

VARIABLES
  boot,                \* position of main before it serves: discover, serving, fatal
  deviceID,            \* p.deviceID
  ac4Channels,         \* t.ac4Channels: channel of the lineup -> it carries AC4 audio
  activeStreams,       \* t.activeStreams: channel -> the session whose start time it holds
  ffmpegProcesses,     \* t.ffmpegProcesses: channel -> pid, named by the session that started the child
  connectionActivity,  \* t.connectionActivity: channel -> age of the stamp (now - stamp), in minutes
  pc,                  \* position of each request handler
  channel,             \* the channel of each request
  reqDone,             \* r.Context() of the request is cancelled
  watcher,             \* the disconnect watcher started by setupStreamConnection
  ffWatcher,           \* the disconnect watcher started by startFFmpeg
  cmd,                 \* the child process of the session: none, running, killed,
                       \* exited (status 0), failed (status other than 0)
  reaped,              \* session -> cmd.Wait() has returned: the pid of its child is free
  result,              \* session -> what its streaming function returned: none yet,
                       \* nil, or the message of its error
  httpStatus,          \* session -> the status written to its client, 0 for none yet
  copier,              \* the io.Copy goroutine of CopyWithActivityUpdate
  delivered,           \* chunks written to the client's response
  written,             \* session -> the chunks its client has received, in order
  monPc,               \* position of the connection monitor goroutine
  inactiveChannels,    \* the monitor's local list inactiveChannels
  proc,                \* position of main: running, transcoder_down, listeners_down,
                       \* exited, crashed
  ac4ErrorCount,       \* session -> AC4 diagnostics counted by its stderr reader
  consecutiveErrors,   \* session -> those counted in a row
  lastErrorTime,       \* session -> the clock at the last one, NoStamp before the first
  clock,               \* time since main created shutdownCtx, in units of ten seconds
  shutdownAt,          \* history: the clock when the signal arrived
  sweptStale,          \* history: the unfinished sessions the last sweep found inactive
  HDHRIP,              \* p.HDHRIP: the configured address of the tuner
  apiReq,              \* the last request to the API port and the tuner's answer to it
  apiOut,              \* the body written to the client of that request
  given,               \* the command-line flags as parsed and the environment of the process
  cfg,                 \* the Config main has loaded
  copyCall,            \* a call of Helper.Copy: its arguments, its goroutine, its return
  statusOut,           \* the last answer of /status: listed channel -> "Transcoding" is Yes
  urlPath,             \* session -> r.URL.Path of its request, NoPath before it arrives
  fresh,               \* history: the sessions registered or stamped by themselves within
                       \* the last maxInactivityDuration
  stderrPipe,          \* session -> the lines its child has written to the pipe of
                       \* cmd.StderrPipe() that the scanner has not read
  helpersDone,         \* the goroutines of startFFmpeg that have returned: <<session, task>>
  lockHolder,          \* t.mutex, t.activityMutex -> the goroutine that holds it, NoThread
                       \* when it is unlocked
  todo,                \* goroutine -> the Lock and Unlock calls it has still to make
  nested               \* history: <<held, acquired>> for every Lock made while holding a lock

vars == <<boot, deviceID, ac4Channels, activeStreams, ffmpegProcesses, connectionActivity, pc, channel, reqDone,
          watcher, ffWatcher, cmd, copier, delivered, written, monPc, inactiveChannels,
          reaped, result, httpStatus, proc, ac4ErrorCount, consecutiveErrors, lastErrorTime, clock, shutdownAt,
          sweptStale, HDHRIP, apiReq, apiOut, given, cfg, copyCall, statusOut, urlPath, fresh, stderrPipe, helpersDone,
          lockHolder, todo, nested>>

\* A dispatcher that streams directly whatever the lineup does not name.
isAC4ChannelKnownOnly(c) == IF c \in DOMAIN ac4Channels THEN ac4Channels[c] ELSE FALSE

\* isAC4Channel: an unknown channel is assumed to carry AC4.
isAC4Channel(c) == IF c \in DOMAIN ac4Channels THEN ac4Channels[c] ELSE TRUE

\* --- contexts ----------------------------------------------------------------
\* setup.Cancel and setup.ClientCancel are called by cleanupStream, and cancel
\* by the failure returns of setupStreamConnection.
cancelCalled(s) == pc[s] = "done"

\* ctx := context.WithCancel(r.Context()): the context of the upstream request.
ctxDone(s) == reqDone[s] \/ cancelCalled(s)

\* A clientCtx made from context.Background() that nothing cancels.
clientCtxDetached(s) == FALSE

\* clientCtx := context.WithCancel(ctx): setup.Context, also the context of
\* exec.CommandContext.
clientCtxDone(s) == ctxDone(s)

\* startFFmpeg's clientCtx := context.WithCancel(ctx), cancelled by its
\* deferred clientCancel().
ffCtxDone(s) == clientCtxDone(s) \/ pc[s] = "cleanup"

\* The upstream response body is held from client.Do until Body.Close().
bodyOpen(s) == pc[s] \in {"direct_copy", "ff_start", "ff_register", "ff_copy",
                          "ff_wait", "ff_defer", "cleanup"}

\* The listeners accept requests until http.Server.Shutdown closes them.
listening == proc \in {"running", "transcoder_down"}

\* t.ctx, the monitor's context, is cancelled by t.cancel() in StopAllTranscoding.
monitorCtxDone == proc \in {"transcoder_down", "listeners_down"}

\* The process runs: main has not returned and no goroutine has panicked.
alive == proc \notin {"exited", "crashed"}

\* A chunk of a stream: who produced it (the tuner, or a transcoder child from
\* the tuner's stream), for which channel, and its position in that stream.
Chunks == [by : {"tuner", "ffmpeg"}, ch : Channels, at : 1..MaxDelivered]

\* setup.Response.Body: the body of the tuner's answer to GET InputURL/auto/v<c>.
upstreamBody(c) == [i \in 1..MaxDelivered |-> [by |-> "tuner", ch |-> c, at |-> i]]

\* stdout of the child started for channel c, cmd.StdoutPipe(): the child's
\* stdin is fed from the upstream body of that channel.
stdout(c) == [i \in 1..MaxDelivered |-> [by |-> "ffmpeg", ch |-> upstreamBody(c)[i].ch, at |-> i]]

TypeOK ==
  /\ boot \in {"config", "discover", "serving", "fatal"}
  /\ deviceID \in Seq(Bytes)
  /\ ac4Channels \in Lineups
  /\ activeStreams \in [Channels -> Sessions \cup {NoSession}]
  /\ ffmpegProcesses \in [Channels -> Sessions \cup {NoSession}]
  /\ connectionActivity \in [Channels -> {NoStamp, 0, MaxInactivityDuration + 1}]
  /\ pc \in [Sessions -> {"idle", "setup_stamp", "setup_connect", "direct_copy",
                          "ff_start", "ff_register", "ff_copy", "ff_wait",
                          "ff_defer", "cleanup", "done"}]
  /\ channel \in [Sessions -> Channels \cup {NoChannel}]
  /\ reqDone \in [Sessions -> BOOLEAN]
  /\ watcher \in [Sessions -> {"none", "waiting", "done"}]
  /\ ffWatcher \in [Sessions -> {"none", "waiting", "done"}]
  /\ cmd \in [Sessions -> {"none", "running", "killed", "exited", "failed"}]
  /\ reaped \in [Sessions -> BOOLEAN]
  /\ result \in [Sessions -> {NoResult, "nil"} \cup Errors]
  /\ httpStatus \in [Sessions -> {0, 200, 400, 404, 500, 502}]
  /\ urlPath \in [Sessions -> UrlPaths \cup {NoPath}]
  /\ fresh \subseteq Sessions
  /\ stderrPipe \in [Sessions -> Seq(Lines)]
  /\ \A s \in Sessions : Len(stderrPipe[s]) <= MaxUnread
  /\ helpersDone \subseteq Sessions \X {"stdin copier", "stderr reader"}
  /\ lockHolder \in [Locks -> Threads \cup {NoThread}]
  /\ todo \in [Threads -> Seq(LockCalls)]
  /\ nested \subseteq Locks \X Locks
  /\ copier \in [Sessions -> {"none", "running"}]
  /\ delivered \in [Sessions -> 0..MaxDelivered]
  /\ written \in [Sessions -> Seq(Chunks)]
  /\ monPc \in {"wait", "clean", "stopped"}
  /\ inactiveChannels \subseteq Channels
  /\ proc \in {"running", "transcoder_down", "listeners_down", "exited", "crashed"}
  /\ ac4ErrorCount \in [Sessions -> 0..MaxErrors]
  /\ consecutiveErrors \in [Sessions -> 0..MaxErrors]
  /\ lastErrorTime \in [Sessions -> (0..MaxClock) \cup {NoStamp}]
  /\ clock \in 0..MaxClock
  /\ shutdownAt \in (0..MaxClock) \cup {NoStamp}
  /\ sweptStale \subseteq Sessions
  /\ HDHRIP \in TunerAddresses \cup {<<>>}
  /\ given \in [flag : FlagSets, env : Environments]
  /\ cfg \in Configs
  /\ copyCall \in CopyCalls
  /\ statusOut \in Lineups
  /\ apiReq \in {NoRequest} \cup ApiRequests
  /\ apiOut \in Seq(Bytes)

\* The state when main is at stage, t.ac4Channels holds lineup and the tuner
\* is configured at ip; proxy.New has stored the default device id.
InitFor(stage, lineup, ip) ==
  /\ boot = stage
  /\ HDHRIP = ip
  /\ given = [flag |-> [DefaultFlags EXCEPT !.hdhrIP = ip], env |-> NoEnvironment]
  /\ cfg = [DefaultConfig EXCEPT !.HDHomeRunIP = ip]
  /\ copyCall = NoCopyCall
  /\ statusOut = <<>>
  /\ apiReq = NoRequest
  /\ apiOut = <<>>
  /\ deviceID = DefaultDeviceID
  /\ ac4Channels = lineup
  /\ activeStreams = [c \in Channels |-> NoSession]
  /\ ffmpegProcesses = [c \in Channels |-> NoSession]
  /\ connectionActivity = [c \in Channels |-> NoStamp]
  /\ pc = [s \in Sessions |-> "idle"]
  /\ channel = [s \in Sessions |-> NoChannel]
  /\ reqDone = [s \in Sessions |-> FALSE]
  /\ watcher = [s \in Sessions |-> "none"]
  /\ ffWatcher = [s \in Sessions |-> "none"]
  /\ cmd = [s \in Sessions |-> "none"]
  /\ copier = [s \in Sessions |-> "none"]
  /\ delivered = [s \in Sessions |-> 0]
  /\ written = [s \in Sessions |-> <<>>]
  /\ monPc = "wait"
  /\ inactiveChannels = {}
  /\ proc = "running"
  /\ reaped = [s \in Sessions |-> FALSE]
  /\ result = [s \in Sessions |-> NoResult]
  /\ httpStatus = [s \in Sessions |-> 0]
  /\ urlPath = [s \in Sessions |-> NoPath]
  /\ fresh = {}
  /\ stderrPipe = [s \in Sessions |-> <<>>]
  /\ helpersDone = {}
  /\ lockHolder = [l \in Locks |-> NoThread]
  /\ todo = [t \in Threads |-> <<>>]
  /\ nested = {}
  /\ ac4ErrorCount = [s \in Sessions |-> 0]
  /\ consecutiveErrors = [s \in Sessions |-> 0]
  /\ lastErrorTime = [s \in Sessions |-> NoStamp]
  /\ clock = 0
  /\ shutdownAt = NoStamp
  /\ sweptStale = {}

\* The same with the tuner at the address of the rewriting example.
InitAt(stage, lineup) == InitFor(stage, lineup, ExampleTuner)

\* The state after NewTranscoder stored lineup in t.ac4Channels.
InitWith(lineup) == InitAt("serving", lineup)

Init == InitWith(fullLineup)

\* --- registry operations -------------------------------------------------------

\* process.Kill(): a running child dies; a dead one is left as it is.
Kill(st) == IF st = "running" THEN "killed" ELSE st

\* The child has terminated.
dead(st) == st \in {"killed", "exited", "failed"}

\* updateActivityTimestamp: connectionActivity[channel] = time.Now().
updateActivityTimestamp(c) ==
  connectionActivity' = [connectionActivity EXCEPT ![c] = 0]

\* StopActiveStream, one critical section of t.mutex: nothing when the channel
\* has no entry; else the entry is deleted and the pid registered for the
\* channel, if any, is killed and its entry deleted.
StopActiveStream(c) ==
  IF activeStreams[c] = NoSession
  THEN UNCHANGED <<activeStreams, ffmpegProcesses, cmd>>
  ELSE /\ activeStreams' = [activeStreams EXCEPT ![c] = NoSession]
       /\ IF ffmpegProcesses[c] # NoSession
          THEN /\ cmd' = [cmd EXCEPT ![ffmpegProcesses[c]] = Kill(@)]
               /\ ffmpegProcesses' = [ffmpegProcesses EXCEPT ![c] = NoSession]
          ELSE UNCHANGED <<ffmpegProcesses, cmd>>

\* --- the request handler: MediaHandler, setupStreamConnection --------------------

\* strings.HasPrefix and strings.TrimPrefix.
HasPrefix(s, prefix) ==
  Len(s) >= Len(prefix) /\ SubSeq(s, 1, Len(prefix)) = prefix

TrimPrefix(s, prefix) ==
  IF HasPrefix(s, prefix) THEN SubSeq(s, Len(prefix) + 1, Len(s)) ELSE s

\* A handler that answers a request without a channel as one off the pattern.
pathStatusNotFound(path) ==
  IF ~HasPrefix(path, AutoV) \/ TrimPrefix(path, AutoV) = <<>> THEN 404 ELSE 0

\* MediaHandler: the status it answers a path with before it looks at the
\* channel: http.NotFound off the pattern "/auto/v", StatusBadRequest for an
\* empty channel, 0 when it goes on to stream the channel.
pathStatus(path) ==
  IF ~HasPrefix(path, AutoV) THEN 404
  ELSE IF TrimPrefix(path, AutoV) = <<>> THEN 400
  ELSE 0

\* MediaHandler dispatches the request; setupStreamConnection registers the
\* stream: t.activeStreams[channel] = start, whatever entry the channel had.
\* Requests are numbered in the order they are registered.
Request(s, c) ==
  /\ listening
  /\ pc[s] = "idle"
  /\ \A p \in Sessions : p < s => pc[p] # "idle"
  /\ pathStatus(AutoV \o <<c>>) = 0
  /\ urlPath' = [urlPath EXCEPT ![s] = AutoV \o <<c>>]
  /\ channel' = [channel EXCEPT ![s] = c]
  /\ fresh' = fresh \cup {s}
  /\ activeStreams' = [activeStreams EXCEPT ![c] = s]
  /\ pc' = [pc EXCEPT ![s] = "setup_stamp"]
  /\ UNCHANGED <<boot, deviceID, ac4Channels, ffmpegProcesses, connectionActivity,
                 reqDone, watcher, ffWatcher, cmd, copier, delivered, written, monPc,
                 inactiveChannels, reaped, result, httpStatus, proc, ac4ErrorCount,
                 consecutiveErrors, lastErrorTime, clock, shutdownAt, sweptStale,
                 HDHRIP, apiReq, apiOut, given, cfg, copyCall, statusOut, stderrPipe,
                 helpersDone, lockHolder, todo, nested>>

\* MediaHandler: a path off the pattern, or one with an empty channel: the
\* error is written and the handler returns; net/http cancels the request's
\* context.
Rejected(s, path) ==
  /\ listening
  /\ pc[s] = "idle"
  /\ \A p \in Sessions : p < s => pc[p] # "idle"
  /\ pathStatus(path) # 0
  /\ urlPath' = [urlPath EXCEPT ![s] = path]
  /\ httpStatus' = [httpStatus EXCEPT ![s] = pathStatus(path)]
  /\ pc' = [pc EXCEPT ![s] = "done"]
  /\ reqDone' = [reqDone EXCEPT ![s] = TRUE]
  /\ UNCHANGED <<boot, deviceID, ac4Channels, activeStreams, ffmpegProcesses,
                 connectionActivity, channel, watcher, ffWatcher, cmd, copier,
                 delivered, written, monPc, inactiveChannels, reaped, result, proc,
                 ac4ErrorCount, consecutiveErrors, lastErrorTime, clock, shutdownAt,
                 sweptStale, HDHRIP, apiReq, apiOut, given, cfg, copyCall, statusOut,
                 fresh, stderrPipe, helpersDone, lockHolder, todo, nested>>

\* setupStreamConnection: t.updateActivityTimestamp(channel).
SetupStamp(s) ==
  /\ pc[s] = "setup_stamp"
  /\ updateActivityTimestamp(channel[s])
  /\ fresh' = fresh \cup {s}
  /\ pc' = [pc EXCEPT ![s] = "setup_connect"]
  /\ UNCHANGED <<boot, deviceID, ac4Channels, activeStreams, ffmpegProcesses,
                 channel, reqDone, watcher, ffWatcher, cmd, copier, delivered,
                 written, monPc, inactiveChannels, reaped, result, httpStatus, proc,
                 ac4ErrorCount, consecutiveErrors, lastErrorTime, clock, shutdownAt,
                 sweptStale, HDHRIP, apiReq, apiOut, given, cfg, copyCall, statusOut,
                 urlPath, stderrPipe, helpersDone, lockHolder, todo, nested>>

\* setupStreamConnection: client.Do(req) fails or answers with a status other
\* than 200: cancel(), HTTP 502, return the error.  The handler returns without
\* cleanupStream; net/http cancels the request's context.
SetupFail(s, err) ==
  /\ pc[s] = "setup_connect"
  /\ pc' = [pc EXCEPT ![s] = "done"]
  /\ httpStatus' = [httpStatus EXCEPT ![s] = 502]
  /\ result' = [result EXCEPT ![s] = err]
  /\ reqDone' = [reqDone EXCEPT ![s] = TRUE]
  /\ sweptStale' = sweptStale \ {s}
  /\ UNCHANGED <<boot, deviceID, ac4Channels, activeStreams, ffmpegProcesses,
                 connectionActivity, channel, watcher, ffWatcher, cmd, copier,
                 delivered, written, monPc, inactiveChannels, reaped, proc,
                 ac4ErrorCount, consecutiveErrors, lastErrorTime, clock, shutdownAt,
                 HDHRIP, apiReq, apiOut, given, cfg, copyCall, statusOut, urlPath,
                 fresh, stderrPipe, helpersDone, lockHolder, todo, nested>>

\* setupStreamConnection: the tuner answers 200: the watcher goroutine is
\* started and the setup returned.  DirectStreamChannel then enters
\* CopyWithActivityUpdate (which starts the io.Copy goroutine), TranscodeChannel
\* enters startFFmpeg.
SetupOk(s) ==
  /\ pc[s] = "setup_connect"
  /\ ~ctxDone(s)
  /\ watcher' = [watcher EXCEPT ![s] = "waiting"]
  /\ pc' = [pc EXCEPT ![s] = IF isAC4Channel(channel[s]) THEN "ff_start" ELSE "direct_copy"]
  /\ copier' = [copier EXCEPT ![s] = IF isAC4Channel(channel[s]) THEN @ ELSE "running"]
  /\ UNCHANGED <<boot, deviceID, ac4Channels, activeStreams, ffmpegProcesses,
                 connectionActivity, channel, reqDone, ffWatcher, cmd, delivered,
                 written, monPc, inactiveChannels, reaped, result, httpStatus, proc,
                 ac4ErrorCount, consecutiveErrors, lastErrorTime, clock, shutdownAt,
                 sweptStale, HDHRIP, apiReq, apiOut, given, cfg, copyCall, statusOut,
                 urlPath, fresh, stderrPipe, helpersDone, lockHolder, todo, nested>>

\* --- Helper.CopyWithActivityUpdate ------------------------------------------------

\* A copy loop whose ticker goes on after the handler returned.
inCopyLoopUnstopped(s) == pc[s] \in {"direct_copy", "ff_copy", "done"}

\* The handler is inside the select loop of CopyWithActivityUpdate.
inCopyLoop(s) == pc[s] \in {"direct_copy", "ff_copy"}

\* The context handed to CopyWithActivityUpdate: setup.Context on the direct
\* path, startFFmpeg's clientCtx on the transcoded path.
loopCtxDone(s) == IF pc[s] = "ff_copy" THEN ffCtxDone(s) ELSE clientCtxDone(s)

\* case <-activityTicker.C: activityCallback().  The ticker fires every second
\* while the loop runs, whether or not io.Copy has written anything.
ActivityTick(s) ==
  /\ inCopyLoop(s)
  /\ updateActivityTimestamp(channel[s])
  /\ fresh' = fresh \cup {s}
  /\ UNCHANGED <<boot, deviceID, ac4Channels, activeStreams, ffmpegProcesses, pc,
                 channel, reqDone, watcher, ffWatcher, cmd, copier, delivered,
                 written, monPc, inactiveChannels, reaped, result, httpStatus, proc,
                 ac4ErrorCount, consecutiveErrors, lastErrorTime, clock, shutdownAt,
                 sweptStale, HDHRIP, apiReq, apiOut, given, cfg, copyCall, statusOut,
                 urlPath, stderrPipe, helpersDone, lockHolder, todo, nested>>

\* The error the caller of CopyWithActivityUpdate returns for an error of the
\* copy that matches no disconnect pattern.
copyError(at) ==
  IF at = "ff_copy" THEN "failed to copy from ffmpeg to response" ELSE "stream interrupted"

\* case <-ctx.Done(): return 0, ctx.Err().  "context canceled" matches neither
\* disconnect pattern, so the caller returns an error and its defers run.  The
\* io.Copy goroutine is left running.
CopyCtxDone(s) ==
  /\ inCopyLoop(s)
  /\ loopCtxDone(s)
  /\ pc' = [pc EXCEPT ![s] = IF pc[s] = "ff_copy" THEN "ff_defer" ELSE "cleanup"]
  /\ result' = [result EXCEPT ![s] = copyError(pc[s])]
  /\ UNCHANGED <<boot, deviceID, ac4Channels, activeStreams, ffmpegProcesses,
                 connectionActivity, channel, reqDone, watcher, ffWatcher, cmd,
                 copier, delivered, written, monPc, inactiveChannels, reaped,
                 httpStatus, proc, ac4ErrorCount, consecutiveErrors, lastErrorTime,
                 clock, shutdownAt, sweptStale, HDHRIP, apiReq, apiOut, given, cfg,
                 copyCall, statusOut, urlPath, fresh, stderrPipe, helpersDone,
                 lockHolder, todo, nested>>

\* Where the caller of CopyWithActivityUpdate goes with the result of io.Copy:
\* on nil startFFmpeg goes on to cmd.Wait() and DirectStreamChannel returns;
\* on an error both return, startFFmpeg through its defers.
afterCopy(at, res) ==
  IF at = "direct_copy" THEN "cleanup"
  ELSE IF res = "eof" THEN "ff_wait" ELSE "ff_defer"

\* A caller that knows no disconnect pattern: every error of the copy is
\* returned.
copyReturnStrict(at, res) ==
  CASE res \in {"write_error", "read_error"} -> copyError(at)
    [] res = "eof" -> IF at = "direct_copy" THEN "nil" ELSE NoResult

\* What the caller of CopyWithActivityUpdate returns for the result of io.Copy:
\* nil for a disconnect pattern, its error for any other error; on nil
\* DirectStreamChannel returns nil and startFFmpeg has not returned yet.
copyReturn(at, res) ==
  CASE res = "write_error" -> "nil"
    [] res = "read_error" -> copyError(at)
    [] res = "eof" -> IF at = "direct_copy" THEN "nil" ELSE NoResult

\* The source of io.Copy delivers data: the upstream body while the request is
\* not cancelled (direct), the child's stdout while the child runs (transcoded).
sourceReadable(s) ==
  IF isAC4Channel(channel[s]) THEN cmd[s] = "running"
  ELSE bodyOpen(s) /\ ~ctxDone(s)

\* The src handed to CopyWithActivityUpdate: setup.Response.Body by
\* DirectStreamChannel, stdout by startFFmpeg.
src(s) == IF isAC4Channel(channel[s]) THEN stdout(channel[s]) ELSE upstreamBody(channel[s])

\* A reader that hands out its first chunk again.
ReadRewound(s) == src(s)[1]

\* src.Read(buf): the next chunk of the source; the reader has handed out the
\* chunks before it.
Read(s) == src(s)[delivered[s] + 1]

\* io.Copy: one chunk read from the source and written to the client.
CopyChunk(s) ==
  /\ copier[s] = "running"
  /\ sourceReadable(s)
  /\ ~reqDone[s]
  /\ delivered[s] < MaxDelivered
  /\ delivered' = [delivered EXCEPT ![s] = @ + 1]
  /\ written' = [written EXCEPT ![s] = Append(@, Read(s))]
  /\ httpStatus' = [httpStatus EXCEPT ![s] = IF @ = 0 THEN 200 ELSE @]
  /\ UNCHANGED <<boot, deviceID, ac4Channels, activeStreams, ffmpegProcesses,
                 connectionActivity, pc, channel, reqDone, watcher, ffWatcher, cmd,
                 copier, monPc, inactiveChannels, reaped, result, proc,
                 ac4ErrorCount, consecutiveErrors, lastErrorTime, clock, shutdownAt,
                 sweptStale, HDHRIP, apiReq, apiOut, given, cfg, copyCall, statusOut,
                 urlPath, fresh, stderrPipe, helpersDone, lockHolder, todo, nested>>

\* What ends io.Copy: EOF of the source (the tuner ended the stream; the child
\* is dead and its stdout closed), a failed Write to a client whose connection
\* is gone, a failed Read of the upstream body.
copyCanEnd(s, res) ==
  CASE res = "eof" ->
         IF isAC4Channel(channel[s]) THEN dead(cmd[s]) ELSE bodyOpen(s)
    [] res = "write_error" -> reqDone[s]
    [] res = "read_error" -> ~isAC4Channel(channel[s])

\* io.Copy returns and sends its result to resultCh; case res := <-resultCh of
\* the loop, if it still runs, returns it to the caller.  On an error that
\* contains "connection reset by peer" or "broken pipe" the caller calls
\* t.StopActiveStream(channel) and returns nil.
CopyResult(s, res) ==
  /\ copier[s] = "running"
  /\ copyCanEnd(s, res)
  /\ copier' = [copier EXCEPT ![s] = "none"]
  /\ pc' = [pc EXCEPT ![s] = IF inCopyLoop(s) THEN afterCopy(pc[s], res) ELSE @]
  /\ result' = [result EXCEPT ![s] = IF inCopyLoop(s) THEN copyReturn(pc[s], res) ELSE @]
  /\ IF inCopyLoop(s) /\ res = "write_error"
     THEN StopActiveStream(channel[s])
     ELSE UNCHANGED <<activeStreams, ffmpegProcesses, cmd>>
  /\ UNCHANGED <<boot, deviceID, ac4Channels, connectionActivity, channel, reqDone,
                 watcher, ffWatcher, delivered, written, monPc, inactiveChannels,
                 reaped, httpStatus, proc, ac4ErrorCount, consecutiveErrors,
                 lastErrorTime, clock, shutdownAt, sweptStale, HDHRIP, apiReq,
                 apiOut, given, cfg, copyCall, statusOut, urlPath, fresh, stderrPipe,
                 helpersDone, lockHolder, todo, nested>>

\* The client closes its connection: net/http cancels r.Context().
ClientDisconnect(s) ==
  /\ pc[s] \notin {"idle", "done"}
  /\ ~reqDone[s]
  /\ reqDone' = [reqDone EXCEPT ![s] = TRUE]
  /\ UNCHANGED <<boot, deviceID, ac4Channels, activeStreams, ffmpegProcesses,
                 connectionActivity, pc, channel, watcher, ffWatcher, cmd, copier,
                 delivered, written, monPc, inactiveChannels, reaped, result,
                 httpStatus, proc, ac4ErrorCount, consecutiveErrors, lastErrorTime,
                 clock, shutdownAt, sweptStale, HDHRIP, apiReq, apiOut, given, cfg,
                 copyCall, statusOut, urlPath, fresh, stderrPipe, helpersDone,
                 lockHolder, todo, nested>>

\* --- DirectStreamChannel, cleanupStream, the watchers --------------------------------

\* cleanupStream: setup.Cancel(), setup.ClientCancel(), Response.Body.Close(),
\* then delete(t.activeStreams, channel) under t.mutex; the handler returns and
\* net/http cancels the request's context.
cleanupStream(s) ==
  /\ pc[s] = "cleanup"
  /\ activeStreams' = [activeStreams EXCEPT ![channel[s]] = NoSession]
  /\ pc' = [pc EXCEPT ![s] = "done"]
  /\ reqDone' = [reqDone EXCEPT ![s] = TRUE]
  /\ sweptStale' = sweptStale \ {s}
  /\ UNCHANGED <<boot, deviceID, ac4Channels, ffmpegProcesses, connectionActivity,
                 channel, watcher, ffWatcher, cmd, copier, delivered, written, monPc,
                 inactiveChannels, reaped, result, httpStatus, proc, ac4ErrorCount,
                 consecutiveErrors, lastErrorTime, clock, shutdownAt, HDHRIP, apiReq,
                 apiOut, given, cfg, copyCall, statusOut, urlPath, fresh, stderrPipe,
                 helpersDone, lockHolder, todo, nested>>

\* The goroutine of setupStreamConnection: <-clientCtx.Done(), then
\* t.StopActiveStream(channel).
WatcherFire(s) ==
  /\ watcher[s] = "waiting"
  /\ clientCtxDone(s)
  /\ StopActiveStream(channel[s])
  /\ watcher' = [watcher EXCEPT ![s] = "done"]
  /\ UNCHANGED <<boot, deviceID, ac4Channels, connectionActivity, pc, channel,
                 reqDone, ffWatcher, copier, delivered, written, monPc,
                 inactiveChannels, reaped, result, httpStatus, proc, ac4ErrorCount,
                 consecutiveErrors, lastErrorTime, clock, shutdownAt, sweptStale,
                 HDHRIP, apiReq, apiOut, given, cfg, copyCall, statusOut, urlPath,
                 fresh, stderrPipe, helpersDone, lockHolder, todo, nested>>

\* The goroutine of startFFmpeg: <-clientCtx.Done(), then
\* t.StopActiveStream(channel).
FFWatcherFire(s) ==
  /\ ffWatcher[s] = "waiting"
  /\ ffCtxDone(s)
  /\ StopActiveStream(channel[s])
  /\ ffWatcher' = [ffWatcher EXCEPT ![s] = "done"]
  /\ UNCHANGED <<boot, deviceID, ac4Channels, connectionActivity, pc, channel,
                 reqDone, watcher, copier, delivered, written, monPc,
                 inactiveChannels, reaped, result, httpStatus, proc, ac4ErrorCount,
                 consecutiveErrors, lastErrorTime, clock, shutdownAt, sweptStale,
                 HDHRIP, apiReq, apiOut, given, cfg, copyCall, statusOut, urlPath,
                 fresh, stderrPipe, helpersDone, lockHolder, todo, nested>>

\* --- startFFmpeg and the child process ------------------------------------------------

\* t.FFmpegPath as ValidateExecutable sees it: whether the string contains
\* "..", whether it matches ^[a-zA-Z0-9_\-./\\]+$, what os.Stat finds, whether
\* a permission bit of 0111 is set, and whether the build is for Windows.
Paths ==
  [traversal : BOOLEAN, validChars : BOOLEAN,
   stat : {"not found", "error", "directory", "file"}, execBit : BOOLEAN,
   windows : BOOLEAN]

\* DefaultSecurityValidator.ValidateExecutable: the error it returns, or "nil".
ValidateExecutable(path) ==
  CASE path.traversal -> "path contains directory traversal attempt"
    [] ~path.traversal /\ ~path.validChars -> "path contains invalid characters"
    [] OTHER ->
         CASE path.stat = "not found" -> "path not found"
           [] path.stat = "error" -> "error checking path"
           [] path.stat = "directory" -> "path is not executable"
           [] OTHER -> IF ~path.windows /\ ~path.execBit
                       THEN "path is not executable" ELSE "nil"

\* What t.FFmpegPath can be when a session starts: the constructor has
\* validated the same string, so only the file it names can have changed.
SessionPaths == {path \in Paths : ~path.traversal /\ path.validChars}

\* A startFFmpeg that reports every failure to start as "failed to start
\* ffmpeg".
startErrorGeneric(path) == "failed to start ffmpeg"

\* The error startFFmpeg returns before the child runs: "invalid FFmpeg
\* executable" when ValidateExecutable fails, which is before
\* exec.CommandContext; "failed to start ffmpeg" when a pipe or cmd.Start()
\* fails.
startError(path) ==
  IF ValidateExecutable(path) # "nil"
  THEN "invalid FFmpeg executable" ELSE "failed to start ffmpeg"

\* startFFmpeg returns before the child runs: ValidateExecutable, a pipe or
\* cmd.Start() fails (Start fails when its context is already done).  HTTP 500;
\* TranscodeChannel's deferred cleanupStream runs.
FFStartFail(s, path) ==
  /\ pc[s] = "ff_start"
  /\ pc' = [pc EXCEPT ![s] = "cleanup"]
  /\ httpStatus' = [httpStatus EXCEPT ![s] = 500]
  /\ result' = [result EXCEPT ![s] = startError(path)]
  /\ UNCHANGED <<boot, deviceID, ac4Channels, activeStreams, ffmpegProcesses,
                 connectionActivity, channel, reqDone, watcher, ffWatcher, cmd,
                 copier, delivered, written, monPc, inactiveChannels, reaped, proc,
                 ac4ErrorCount, consecutiveErrors, lastErrorTime, clock, shutdownAt,
                 sweptStale, HDHRIP, apiReq, apiOut, given, cfg, copyCall, statusOut,
                 urlPath, fresh, stderrPipe, helpersDone, lockHolder, todo, nested>>

\* ValidateExecutable returns nil and cmd.Start() succeeds: the child runs.
FFStart(s) ==
  /\ pc[s] = "ff_start"
  /\ \E path \in SessionPaths : ValidateExecutable(path) = "nil"
  /\ ~clientCtxDone(s)
  /\ cmd' = [cmd EXCEPT ![s] = "running"]
  /\ pc' = [pc EXCEPT ![s] = "ff_register"]
  /\ UNCHANGED <<boot, deviceID, ac4Channels, activeStreams, ffmpegProcesses,
                 connectionActivity, channel, reqDone, watcher, ffWatcher, copier,
                 delivered, written, monPc, inactiveChannels, reaped, result,
                 httpStatus, proc, ac4ErrorCount, consecutiveErrors, lastErrorTime,
                 clock, shutdownAt, sweptStale, HDHRIP, apiReq, apiOut, given, cfg,
                 copyCall, statusOut, urlPath, fresh, stderrPipe, helpersDone,
                 lockHolder, todo, nested>>

\* t.ffmpegProcesses[channel] = ffmpegPid under t.mutex; then the stderr
\* reader, the stdin copier and the watcher are started and
\* CopyWithActivityUpdate entered.
FFRegister(s) ==
  /\ pc[s] = "ff_register"
  /\ ffmpegProcesses' = [ffmpegProcesses EXCEPT ![channel[s]] = s]
  /\ ffWatcher' = [ffWatcher EXCEPT ![s] = "waiting"]
  /\ copier' = [copier EXCEPT ![s] = "running"]
  /\ pc' = [pc EXCEPT ![s] = "ff_copy"]
  /\ UNCHANGED <<boot, deviceID, ac4Channels, activeStreams, connectionActivity,
                 channel, reqDone, watcher, cmd, delivered, written, monPc,
                 inactiveChannels, reaped, result, httpStatus, proc, ac4ErrorCount,
                 consecutiveErrors, lastErrorTime, clock, shutdownAt, sweptStale,
                 HDHRIP, apiReq, apiOut, given, cfg, copyCall, statusOut, urlPath,
                 fresh, stderrPipe, helpersDone, lockHolder, todo, nested>>

\* cmd.Wait() returns an error for a child that was killed or exited with a
\* status other than 0.
waitFails(st) == st \in {"killed", "failed"}

\* A classification that takes no account of the AC4 diagnostics: every error
\* of Wait is returned.
waitReturnStrict(s) == IF waitFails(cmd[s]) THEN "ffmpeg process failed" ELSE "nil"

\* What startFFmpeg returns after cmd.Wait(): on an error of Wait nil when
\* atomic.LoadInt32(&ac4ErrorCount) > 0 and an error otherwise; nil without.
waitReturn(s) ==
  IF waitFails(cmd[s]) /\ ac4ErrorCount[s] = 0 THEN "ffmpeg process failed" ELSE "nil"

\* cmd.Wait() returns once the child is dead.
FFWait(s) ==
  /\ pc[s] = "ff_wait"
  /\ dead(cmd[s])
  /\ pc' = [pc EXCEPT ![s] = "ff_defer"]
  /\ result' = [result EXCEPT ![s] = waitReturn(s)]
  /\ reaped' = [reaped EXCEPT ![s] = TRUE]
  /\ UNCHANGED <<boot, deviceID, ac4Channels, activeStreams, ffmpegProcesses,
                 connectionActivity, channel, reqDone, watcher, ffWatcher, cmd,
                 copier, delivered, written, monPc, inactiveChannels, httpStatus,
                 proc, ac4ErrorCount, consecutiveErrors, lastErrorTime, clock,
                 shutdownAt, sweptStale, HDHRIP, apiReq, apiOut, given, cfg,
                 copyCall, statusOut, urlPath, fresh, stderrPipe, helpersDone,
                 lockHolder, todo, nested>>

\* The defers of startFFmpeg: clientCancel(); process.Kill() unless the child
\* is known to have exited; delete(t.ffmpegProcesses, channel) under t.mutex.
\* startFFmpeg returns and cleanupStream runs.
FFDefer(s) ==
  /\ pc[s] = "ff_defer"
  /\ cmd' = [cmd EXCEPT ![s] = Kill(@)]
  /\ ffmpegProcesses' = [ffmpegProcesses EXCEPT ![channel[s]] = NoSession]
  /\ pc' = [pc EXCEPT ![s] = "cleanup"]
  /\ UNCHANGED <<boot, deviceID, ac4Channels, activeStreams, connectionActivity,
                 channel, reqDone, watcher, ffWatcher, copier, delivered, written,
                 monPc, inactiveChannels, reaped, result, httpStatus, proc,
                 ac4ErrorCount, consecutiveErrors, lastErrorTime, clock, shutdownAt,
                 sweptStale, HDHRIP, apiReq, apiOut, given, cfg, copyCall, statusOut,
                 urlPath, fresh, stderrPipe, helpersDone, lockHolder, todo, nested>>

\* exec.CommandContext: the child is killed once its context is done.
CtxKill(s) ==
  /\ cmd[s] = "running"
  /\ clientCtxDone(s)
  /\ cmd' = [cmd EXCEPT ![s] = "killed"]
  /\ UNCHANGED <<boot, deviceID, ac4Channels, activeStreams, ffmpegProcesses,
                 connectionActivity, pc, channel, reqDone, watcher, ffWatcher,
                 copier, delivered, written, monPc, inactiveChannels, reaped, result,
                 httpStatus, proc, ac4ErrorCount, consecutiveErrors, lastErrorTime,
                 clock, shutdownAt, sweptStale, HDHRIP, apiReq, apiOut, given, cfg,
                 copyCall, statusOut, urlPath, fresh, stderrPipe, helpersDone,
                 lockHolder, todo, nested>>

\* The child exits by itself: with status 0 at the end of its input, with
\* another status on a failure.
ChildExit(s, st) ==
  /\ cmd[s] = "running"
  /\ cmd' = [cmd EXCEPT ![s] = st]
  /\ UNCHANGED <<boot, deviceID, ac4Channels, activeStreams, ffmpegProcesses,
                 connectionActivity, pc, channel, reqDone, watcher, ffWatcher,
                 copier, delivered, written, monPc, inactiveChannels, reaped, result,
                 httpStatus, proc, ac4ErrorCount, consecutiveErrors, lastErrorTime,
                 clock, shutdownAt, sweptStale, HDHRIP, apiReq, apiOut, given, cfg,
                 copyCall, statusOut, urlPath, fresh, stderrPipe, helpersDone,
                 lockHolder, todo, nested>>

\* --- the stderr reader of startFFmpeg ---------------------------------------------------

\* strings.Contains(line, "[ac4 @") && (overread || invalid data)
isAC4Line(l) == l.ac4 /\ (l.overread \/ l.invalid)

\* strings.Contains(line, "Error") && !strings.Contains(line, "[ac4 @")
isCriticalLine(l) == l.error /\ ~l.ac4

\* errorType = strings.TrimSpace(remaining[:colonIdx+2]): the slice expression
\* panics when fewer than one character follows the ":", and a panic in the
\* reader's goroutine ends the process.
slicePanics(l) == l.overread /\ l.tail # NoColon /\ l.tail < 1

\* now-lastError > int64(errorResetInterval); lastErrorTime starts as 0, the
\* epoch, so the first diagnostic always finds the interval passed.
resetDue(s) ==
  lastErrorTime[s] = NoStamp \/ clock - lastErrorTime[s] > errorResetInterval

\* atomic.AddInt32(&x, 1): an int32 wraps around at its largest value.
addInt32(x) == IF x = 2147483647 THEN -2147483647 - 1 ELSE x + 1

\* A reader that never resets the consecutive counter.
nextConsecutiveNoReset(s) == addInt32(consecutiveErrors[s])

\* consecutiveErrors after one AC4 diagnostic: stored as 0 when the reset is
\* due, then incremented.
nextConsecutive(s) == addInt32(IF resetDue(s) THEN 0 ELSE consecutiveErrors[s])

\* The reader runs from startFFmpeg's go statement; the child writes while it
\* runs.
stderrReading(s) == cmd[s] = "running" /\ pc[s] \in {"ff_copy", "ff_wait", "ff_defer"}

\* scanner.Scan() delivers one line.  An AC4 diagnostic is counted and logged
\* by severity; a line with "Error" and without "[ac4 @" is logged.
scanLine(s, l) ==
  IF isAC4Line(l)
  THEN /\ ac4ErrorCount[s] < MaxErrors
       /\ ac4ErrorCount' = [ac4ErrorCount EXCEPT ![s] = addInt32(@)]
       /\ consecutiveErrors' = [consecutiveErrors EXCEPT ![s] = nextConsecutive(s)]
       /\ lastErrorTime' = [lastErrorTime EXCEPT ![s] = clock]
       /\ proc' = IF slicePanics(l) THEN "crashed" ELSE proc
  ELSE UNCHANGED <<ac4ErrorCount, consecutiveErrors, lastErrorTime, proc>>

\* The child writes a line and the reader, which keeps up with it, reads it.
StderrLine(s, l) ==
  /\ stderrReading(s)
  /\ scanLine(s, l)
  /\ UNCHANGED <<boot, deviceID, ac4Channels, activeStreams, ffmpegProcesses,
                 connectionActivity, pc, channel, reqDone, watcher, ffWatcher, cmd,
                 copier, delivered, written, monPc, inactiveChannels, reaped, result,
                 httpStatus, clock, shutdownAt, sweptStale, HDHRIP, apiReq, apiOut,
                 given, cfg, copyCall, statusOut, urlPath, fresh, stderrPipe,
                 helpersDone, lockHolder, todo, nested>>

\* The child writes a line to its stderr; the line waits in the pipe.
StderrWrite(s, l) ==
  /\ cmd[s] = "running"
  /\ Len(stderrPipe[s]) < MaxUnread
  /\ stderrPipe' = [stderrPipe EXCEPT ![s] = Append(@, l)]
  /\ UNCHANGED <<boot, deviceID, ac4Channels, activeStreams, ffmpegProcesses,
                 connectionActivity, pc, channel, reqDone, watcher, ffWatcher, cmd,
                 copier, delivered, written, monPc, inactiveChannels, reaped, result,
                 httpStatus, proc, ac4ErrorCount, consecutiveErrors, lastErrorTime,
                 clock, shutdownAt, sweptStale, HDHRIP, apiReq, apiOut, given, cfg,
                 copyCall, statusOut, urlPath, fresh, helpersDone, lockHolder, todo,
                 nested>>

\* scanner.Scan() delivers the oldest line waiting in the pipe.  The reader
\* runs from startFFmpeg's go statement on, whatever the handler does; once
\* cmd.Wait() has returned the pipe is closed and Scan returns false.
StderrRead(s) ==
  /\ pc[s] \in {"ff_copy", "ff_wait", "ff_defer", "cleanup", "done"}
  /\ ~reaped[s]
  /\ stderrPipe[s] # <<>>
  /\ scanLine(s, Head(stderrPipe[s]))
  /\ stderrPipe' = [stderrPipe EXCEPT ![s] = Tail(@)]
  /\ UNCHANGED <<boot, deviceID, ac4Channels, activeStreams, ffmpegProcesses,
                 connectionActivity, pc, channel, reqDone, watcher, ffWatcher, cmd,
                 copier, delivered, written, monPc, inactiveChannels, reaped, result,
                 httpStatus, clock, shutdownAt, sweptStale, HDHRIP, apiReq, apiOut,
                 given, cfg, copyCall, statusOut, urlPath, fresh, helpersDone,
                 lockHolder, todo, nested>>

\* startFFmpeg has started its goroutines for the session: the stderr reader,
\* the stdin copier and the watcher (FFRegister).
helpersStarted(s) == ffWatcher[s] # "none"

\* The goroutine has been started and has not returned.
helperRunning(s, task) == helpersStarted(s) /\ <<s, task>> \notin helpersDone

\* What makes the stdin copier return: case <-ctx.Done() or a Read of the
\* upstream body that fails because the request's context is done or the body
\* closed; a Read that ends because the tuner ended or broke the stream; a
\* Write to the stdin of a child that is dead ("broken pipe").
stdinCopyCanEnd(s, why) ==
  CASE why = "context" -> clientCtxDone(s) \/ ~bodyOpen(s)
    [] why = "upstream" -> TRUE
    [] why = "broken pipe" -> dead(cmd[s])

\* The goroutine HDHomeRun -> FFmpeg returns; its deferred stdin.Close() runs.
StdinCopyExit(s, why) ==
  /\ helperRunning(s, "stdin copier")
  /\ stdinCopyCanEnd(s, why)
  /\ helpersDone' = helpersDone \cup {<<s, "stdin copier">>}
  /\ UNCHANGED <<boot, deviceID, ac4Channels, activeStreams, ffmpegProcesses,
                 connectionActivity, pc, channel, reqDone, watcher, ffWatcher, cmd,
                 copier, delivered, written, monPc, inactiveChannels, reaped, result,
                 httpStatus, proc, ac4ErrorCount, consecutiveErrors, lastErrorTime,
                 clock, shutdownAt, sweptStale, HDHRIP, apiReq, apiOut, given, cfg,
                 copyCall, statusOut, urlPath, fresh, stderrPipe, lockHolder, todo,
                 nested>>

\* scanner.Scan() returns false and the reader goroutine returns: the child is
\* dead and the pipe read to its end, or cmd.Wait() has closed the pipe.
StderrExit(s) ==
  /\ helperRunning(s, "stderr reader")
  /\ dead(cmd[s])
  /\ stderrPipe[s] = <<>> \/ reaped[s]
  /\ helpersDone' = helpersDone \cup {<<s, "stderr reader">>}
  /\ UNCHANGED <<boot, deviceID, ac4Channels, activeStreams, ffmpegProcesses,
                 connectionActivity, pc, channel, reqDone, watcher, ffWatcher, cmd,
                 copier, delivered, written, monPc, inactiveChannels, reaped, result,
                 httpStatus, proc, ac4ErrorCount, consecutiveErrors, lastErrorTime,
                 clock, shutdownAt, sweptStale, HDHRIP, apiReq, apiOut, given, cfg,
                 copyCall, statusOut, urlPath, fresh, stderrPipe, lockHolder, todo,
                 nested>>

\* --- t.mutex and t.activityMutex -----------------------------------------------------

\* t.mutex.Lock() ... t.mutex.Unlock(), deferred or not, with no call that
\* locks in between.
section(l) == <<[op |-> "Lock", lock |-> l], [op |-> "Unlock", lock |-> l]>>

\* A StopActiveStream that unlocks at its end and not on its early return.
locksOfStopActiveStreamNoDefer == {section("mutex"), <<[op |-> "Lock", lock |-> "mutex"]>>}

\* The calls of each function, in the order it makes them.  StopActiveStream
\* returns early or at its end; its Unlock is deferred.
locksOfStopActiveStream == {section("mutex")}
locksOfIsAC4Channel == section("mutex")
locksOfUpdateActivityTimestamp == section("activityMutex")
locksOfCleanupStream == section("mutex")
locksOfStatus == section("mutex")
locksOfStopAllTranscoding == section("mutex")
locksOfStartConnectionMonitor == section("mutex")

\* setupStreamConnection: the entry is stored under t.mutex, then
\* updateActivityTimestamp.
locksOfSetup == section("mutex") \o locksOfUpdateActivityTimestamp

\* CopyWithActivityUpdate: the activity callback on every tick (none or one
\* here), then, on a disconnect pattern, StopActiveStream.
locksOfCopy ==
  {ticks \o stop : ticks \in {<<>>, locksOfUpdateActivityTimestamp},
                   stop \in {<<>>} \cup locksOfStopActiveStream}

\* startFFmpeg: the pid is stored under t.mutex, the copy, and the deferred
\* cleanup deletes the pid under t.mutex; or it returns before the child runs.
locksOfStartFFmpeg ==
  {<<>>} \cup {section("mutex") \o copy \o section("mutex") : copy \in locksOfCopy}

\* The handler of /auto/v<channel>: isAC4Channel, setupStreamConnection, which
\* may fail, then the copy or startFFmpeg, then the deferred cleanupStream.
locksOfHandler ==
  {locksOfIsAC4Channel \o locksOfSetup} \cup
  {locksOfIsAC4Channel \o locksOfSetup \o body \o locksOfCleanupStream :
     body \in locksOfCopy \cup locksOfStartFFmpeg}

\* cleanupInactiveStreams: the sweep under t.activityMutex, which is unlocked
\* before the loop; then for each inactive channel (none, one or two)
\* StopActiveStream and the delete under t.activityMutex.
locksOfCleanupInactiveStreams ==
  LET each == {stop \o section("activityMutex") : stop \in locksOfStopActiveStream} IN
    {section("activityMutex")} \cup
    {section("activityMutex") \o one : one \in each} \cup
    {section("activityMutex") \o one \o two : one \in each, two \in each}

\* What a goroutine of each kind calls from its start to its end.
Scripts(t) ==
  CASE t \in {"handler 1", "handler 2"} -> locksOfHandler
    [] t = "watcher" -> locksOfStopActiveStream
    [] t = "monitor" -> locksOfCleanupInactiveStreams
    [] t = "main" -> {locksOfStartConnectionMonitor, locksOfStopAllTranscoding}
    [] t = "status" -> {locksOfStatus}

\* A goroutine of the kind starts: a request arrives, a context is done, the
\* monitor's ticker fires, main starts the monitor or shuts down.
Spawn(t, script) ==
  /\ todo[t] = <<>>
  /\ script # <<>>
  /\ todo' = [todo EXCEPT ![t] = script]
  /\ UNCHANGED <<boot, deviceID, ac4Channels, activeStreams, ffmpegProcesses,
                 connectionActivity, pc, channel, reqDone, watcher, ffWatcher, cmd,
                 copier, delivered, written, monPc, inactiveChannels, reaped, result,
                 httpStatus, proc, ac4ErrorCount, consecutiveErrors, lastErrorTime,
                 clock, shutdownAt, sweptStale, HDHRIP, apiReq, apiOut, given, cfg,
                 copyCall, statusOut, urlPath, fresh, stderrPipe, helpersDone,
                 lockHolder, nested>>

\* The locks the goroutine holds.
held(t) == {l \in Locks : lockHolder[l] = t}

\* sync.Mutex.Lock: blocks while the mutex is locked, by whomever.
LockStep(t) ==
  /\ todo[t] # <<>>
  /\ Head(todo[t]).op = "Lock"
  /\ lockHolder[Head(todo[t]).lock] = NoThread
  /\ lockHolder' = [lockHolder EXCEPT ![Head(todo[t]).lock] = t]
  /\ nested' = nested \cup {<<l, Head(todo[t]).lock>> : l \in held(t)}
  /\ todo' = [todo EXCEPT ![t] = Tail(@)]
  /\ UNCHANGED <<boot, deviceID, ac4Channels, activeStreams, ffmpegProcesses,
                 connectionActivity, pc, channel, reqDone, watcher, ffWatcher, cmd,
                 copier, delivered, written, monPc, inactiveChannels, reaped, result,
                 httpStatus, proc, ac4ErrorCount, consecutiveErrors, lastErrorTime,
                 clock, shutdownAt, sweptStale, HDHRIP, apiReq, apiOut, given, cfg,
                 copyCall, statusOut, urlPath, fresh, stderrPipe, helpersDone>>

\* sync.Mutex.Unlock.
UnlockStep(t) ==
  /\ todo[t] # <<>>
  /\ Head(todo[t]).op = "Unlock"
  /\ lockHolder' = [lockHolder EXCEPT ![Head(todo[t]).lock] = NoThread]
  /\ todo' = [todo EXCEPT ![t] = Tail(@)]
  /\ UNCHANGED <<boot, deviceID, ac4Channels, activeStreams, ffmpegProcesses,
                 connectionActivity, pc, channel, reqDone, watcher, ffWatcher, cmd,
                 copier, delivered, written, monPc, inactiveChannels, reaped, result,
                 httpStatus, proc, ac4ErrorCount, consecutiveErrors, lastErrorTime,
                 clock, shutdownAt, sweptStale, HDHRIP, apiReq, apiOut, given, cfg,
                 copyCall, statusOut, urlPath, fresh, stderrPipe, helpersDone,
                 nested>>

\* --- time and the connection monitor ----------------------------------------------------

\* now.Sub(lastActivity) > t.maxInactivityDuration
inactive(age) == age # NoStamp /\ age > MaxInactivityDuration

\* Time passes, more than t.maxInactivityDuration of it: every stamp is now
\* older than the threshold.
Tick ==
  /\ \E c \in Channels : connectionActivity[c] = 0
  /\ connectionActivity' = [c \in Channels |->
        IF connectionActivity[c] = NoStamp THEN NoStamp ELSE MaxInactivityDuration + 1]
  /\ clock' = MaxClock
  /\ fresh' = {}
  /\ UNCHANGED <<boot, deviceID, ac4Channels, activeStreams, ffmpegProcesses, pc,
                 channel, reqDone, watcher, ffWatcher, cmd, copier, delivered,
                 written, monPc, inactiveChannels, reaped, result, httpStatus, proc,
                 ac4ErrorCount, consecutiveErrors, lastErrorTime, shutdownAt,
                 sweptStale, HDHRIP, apiReq, apiOut, given, cfg, copyCall, statusOut,
                 urlPath, stderrPipe, helpersDone, lockHolder, todo, nested>>

\* A request whose handler has not returned.
live(s) == pc[s] \notin {"idle", "done"}

\* cleanupInactiveStreams, first critical section of t.activityMutex, on a
\* tick of the monitor's ticker: collect the channels whose stamp is too old.
Sweep ==
  /\ monPc = "wait"
  /\ LET found == {c \in Channels : inactive(connectionActivity[c])} IN
       /\ inactiveChannels' = found
       /\ monPc' = IF found = {} THEN "wait" ELSE "clean"
       /\ sweptStale' = {s \in Sessions : live(s) /\ channel[s] \in found}
  /\ UNCHANGED <<boot, deviceID, ac4Channels, activeStreams, ffmpegProcesses,
                 connectionActivity, pc, channel, reqDone, watcher, ffWatcher, cmd,
                 copier, delivered, written, reaped, result, httpStatus, proc,
                 ac4ErrorCount, consecutiveErrors, lastErrorTime, clock, shutdownAt,
                 HDHRIP, apiReq, apiOut, given, cfg, copyCall, statusOut, urlPath,
                 fresh, stderrPipe, helpersDone, lockHolder, todo, nested>>

\* cleanupInactiveStreams, for the next inactive channel:
\* t.StopActiveStream(channel), then delete(t.connectionActivity, channel)
\* under t.activityMutex.
MonitorStop(c) ==
  /\ monPc = "clean"
  /\ c \in inactiveChannels
  /\ StopActiveStream(c)
  /\ connectionActivity' = [connectionActivity EXCEPT ![c] = NoStamp]
  /\ inactiveChannels' = inactiveChannels \ {c}
  /\ monPc' = IF inactiveChannels' = {} THEN "wait" ELSE "clean"
  /\ UNCHANGED <<boot, deviceID, ac4Channels, pc, channel, reqDone, watcher,
                 ffWatcher, copier, delivered, written, reaped, result, httpStatus,
                 proc, ac4ErrorCount, consecutiveErrors, lastErrorTime, clock,
                 shutdownAt, sweptStale, HDHRIP, apiReq, apiOut, given, cfg,
                 copyCall, statusOut, urlPath, fresh, stderrPipe, helpersDone,
                 lockHolder, todo, nested>>

\* startConnectionMonitor: case <-t.ctx.Done(): return.
MonitorExit ==
  /\ monPc = "wait"
  /\ monitorCtxDone
  /\ monPc' = "stopped"
  /\ UNCHANGED <<boot, deviceID, ac4Channels, activeStreams, ffmpegProcesses,
                 connectionActivity, pc, channel, reqDone, watcher, ffWatcher, cmd,
                 copier, delivered, written, inactiveChannels, reaped, result,
                 httpStatus, proc, ac4ErrorCount, consecutiveErrors, lastErrorTime,
                 clock, shutdownAt, sweptStale, HDHRIP, apiReq, apiOut, given, cfg,
                 copyCall, statusOut, urlPath, fresh, stderrPipe, helpersDone,
                 lockHolder, todo, nested>>

\* --- main, Container.Shutdown, Impl.Shutdown ----------------------------------------------

\* StopAllTranscoding, one critical section of t.mutex: t.cancel() (the
\* monitor's context); t.cmd is nil (nothing ever sets it); and
\* t.activeStreams = make(map[string]time.Time).
StopAllTranscoding ==
  activeStreams' = [c \in Channels |-> NoSession]

\* main receives SIGINT or SIGTERM and calls Container.Shutdown, which calls
\* Impl.Shutdown: t.stopActivityCheck is nil (nothing ever sets it);
\* t.StopAllTranscoding().
Shutdown ==
  /\ proc = "running"
  /\ StopAllTranscoding
  /\ proc' = "transcoder_down"
  /\ shutdownAt' = clock
  /\ UNCHANGED <<boot, deviceID, ac4Channels, ffmpegProcesses, connectionActivity,
                 pc, channel, reqDone, watcher, ffWatcher, cmd, copier, delivered,
                 written, monPc, inactiveChannels, reaped, result, httpStatus,
                 ac4ErrorCount, consecutiveErrors, lastErrorTime, clock, sweptStale,
                 HDHRIP, apiReq, apiOut, given, cfg, copyCall, statusOut, urlPath,
                 fresh, stderrPipe, helpersDone, lockHolder, todo, nested>>

\* Container.Shutdown: apiServer.Shutdown(ctx), mediaServer.Shutdown(ctx): the
\* listeners are closed, the open connections are left to finish.
ListenersShutdown ==
  /\ proc = "transcoder_down"
  /\ proc' = "listeners_down"
  /\ UNCHANGED <<boot, deviceID, ac4Channels, activeStreams, ffmpegProcesses,
                 connectionActivity, pc, channel, reqDone, watcher, ffWatcher, cmd,
                 copier, delivered, written, monPc, inactiveChannels, reaped, result,
                 httpStatus, ac4ErrorCount, consecutiveErrors, lastErrorTime, clock,
                 shutdownAt, sweptStale, HDHRIP, apiReq, apiOut, given, cfg,
                 copyCall, statusOut, urlPath, fresh, stderrPipe, helpersDone,
                 lockHolder, todo, nested>>

\* Ten seconds pass.
Elapse ==
  /\ alive
  /\ clock < MaxClock
  /\ clock' = clock + 1
  /\ UNCHANGED <<boot, deviceID, ac4Channels, activeStreams, ffmpegProcesses,
                 connectionActivity, pc, channel, reqDone, watcher, ffWatcher, cmd,
                 copier, delivered, written, monPc, inactiveChannels, reaped, result,
                 httpStatus, proc, ac4ErrorCount, consecutiveErrors, lastErrorTime,
                 shutdownAt, sweptStale, HDHRIP, apiReq, apiOut, given, cfg,
                 copyCall, statusOut, urlPath, fresh, stderrPipe, helpersDone,
                 lockHolder, todo, nested>>

\* The deadline of shutdownCtx: main creates it with
\* context.WithTimeout(context.Background(), 10*time.Second) before it waits
\* for the signal, when the clock is 0.
shutdownDeadline == 0 + ShutdownTimeout

\* http.Server.Shutdown returns, nil once no connection is active or ctx.Err()
\* once shutdownCtx is done; Container.Shutdown and then main return, and the
\* process exits with whatever requests are still served.
ShutdownReturns ==
  /\ proc = "listeners_down"
  /\ (\A s \in Sessions : ~live(s)) \/ clock >= shutdownDeadline
  /\ proc' = "exited"
  /\ UNCHANGED <<boot, deviceID, ac4Channels, activeStreams, ffmpegProcesses,
                 connectionActivity, pc, channel, reqDone, watcher, ffWatcher, cmd,
                 copier, delivered, written, monPc, inactiveChannels, reaped, result,
                 httpStatus, ac4ErrorCount, consecutiveErrors, lastErrorTime, clock,
                 shutdownAt, sweptStale, HDHRIP, apiReq, apiOut, given, cfg,
                 copyCall, statusOut, urlPath, fresh, stderrPipe, helpersDone,
                 lockHolder, todo, nested>>

\* --- startup: Container.initializeProxy -----------------------------------------------

\* What GET /discover.json can bring: no connection, a status, a body that
\* cannot be read, is not JSON, or is JSON with or without a DeviceID.
Discoveries ==
  [conn : {"ok", "refused"}, status : {200, 500},
   body : {"unreadable", "not json", "json"}, id : {<<>>, TunerDeviceID}]

\* HDHRProxy.FetchDeviceID: the error it returns, or "nil".
FetchDeviceID(d) ==
  CASE d.conn # "ok" -> "failed to connect to HDHomeRun"
    [] d.conn = "ok" /\ d.status # 200 -> "invalid response from HDHomeRun"
    [] OTHER -> IF d.body = "unreadable" THEN "failed to read response body" ELSE "nil"

\* p.deviceID after FetchDeviceID: replaced by a non-empty DeviceID of a parsed
\* body.
fetchedDeviceID(d) ==
  IF FetchDeviceID(d) = "nil" /\ d.body = "json" /\ d.id # <<>> THEN d.id ELSE deviceID

\* Container.initializeProxy, and main on its result: an error of
\* FetchDeviceID is returned through container.Initialize to main, which
\* calls logger.Fatal; without one main goes on to start the servers.
InitializeProxy(d) ==
  /\ boot = "discover"
  /\ deviceID' = fetchedDeviceID(d)
  /\ IF FetchDeviceID(d) = "nil"
     THEN boot' = "serving" /\ proc' = proc
     ELSE boot' = "fatal" /\ proc' = "exited"
  /\ UNCHANGED <<ac4Channels, activeStreams, ffmpegProcesses, connectionActivity, pc,
                 channel, reqDone, watcher, ffWatcher, cmd, copier, delivered,
                 written, monPc, inactiveChannels, reaped, result, httpStatus,
                 ac4ErrorCount, consecutiveErrors, lastErrorTime, clock, shutdownAt,
                 sweptStale, HDHRIP, apiReq, apiOut, given, cfg, copyCall, statusOut,
                 urlPath, fresh, stderrPipe, helpersDone, lockHolder, todo, nested>>

\* --- main: the configuration --------------------------------------------------------------

\* Config.LoadFromFlags: every flag that is not empty is stored.
LoadFromFlags(c, f) ==
  [HDHomeRunIP |-> IF f.hdhrIP # <<>> THEN f.hdhrIP ELSE c.HDHomeRunIP,
   FFmpegPath |-> IF f.ffmpeg # "" THEN f.ffmpeg ELSE c.FFmpegPath,
   LogLevel |-> IF f.logLevel # "" THEN f.logLevel ELSE c.LogLevel]

\* Config.LoadFromEnvironment: every variable that is not empty is stored.
LoadFromEnvironment(c, env) ==
  [HDHomeRunIP |-> IF env.HDHR_IP # <<>> THEN env.HDHR_IP ELSE c.HDHomeRunIP,
   FFmpegPath |-> IF env.FFMPEG_PATH # "" THEN env.FFMPEG_PATH ELSE c.FFmpegPath,
   LogLevel |-> IF env.LOG_LEVEL # "" THEN env.LOG_LEVEL ELSE c.LogLevel]

\* Config.Validate: nil, or the error (the ports keep their defaults).
Validate(c) ==
  IF c.HDHomeRunIP = <<>> THEN "HDHomeRun IP address is required"
  ELSE IF c.FFmpegPath = "" THEN "FFmpeg path is required"
  ELSE "nil"

\* main: config.DefaultConfig(), cfg.LoadFromFlags(...), then
\* cfg.LoadFromEnvironment(); cfg.Validate() or logger.Fatal;
\* container.Initialize(cfg) hands cfg.HDHomeRunIP to proxy.New.
LoadConfig(f, env) ==
  /\ boot = "config"
  /\ given' = [flag |-> f, env |-> env]
  /\ cfg' = LoadFromEnvironment(LoadFromFlags(DefaultConfig, f), env)
  /\ IF Validate(cfg') = "nil"
     THEN boot' = "discover" /\ HDHRIP' = cfg'.HDHomeRunIP /\ proc' = proc
     ELSE boot' = "fatal" /\ HDHRIP' = HDHRIP /\ proc' = "exited"
  /\ UNCHANGED <<deviceID, ac4Channels, activeStreams, ffmpegProcesses,
                 connectionActivity, pc, channel, reqDone, watcher, ffWatcher, cmd,
                 copier, delivered, written, monPc, inactiveChannels, reaped, result,
                 httpStatus, ac4ErrorCount, consecutiveErrors, lastErrorTime, clock,
                 shutdownAt, sweptStale, apiReq, apiOut, copyCall, statusOut,
                 urlPath, fresh, stderrPipe, helpersDone, lockHolder, todo, nested>>

\* --- MediaHandler: /status ------------------------------------------------------------------

\* The handler of /status, its table of the active streams: under t.mutex,
\* channelIsAC4[channel] = t.ac4Channels[channel] for every channel of
\* t.activeStreams (false for a channel the map does not hold); a row says
\* "Yes (AC4->EAC3)" when that is true and "No" otherwise.
Status ==
  /\ alive
  /\ statusOut' = [c \in {c \in Channels : activeStreams[c] # NoSession} |->
                     IF c \in DOMAIN ac4Channels THEN ac4Channels[c] ELSE FALSE]
  /\ UNCHANGED <<boot, deviceID, ac4Channels, activeStreams, ffmpegProcesses,
                 connectionActivity, pc, channel, reqDone, watcher, ffWatcher, cmd,
                 copier, delivered, written, monPc, inactiveChannels, reaped, result,
                 httpStatus, proc, ac4ErrorCount, consecutiveErrors, lastErrorTime,
                 clock, shutdownAt, sweptStale, HDHRIP, apiReq, apiOut, given, cfg,
                 copyCall, urlPath, fresh, stderrPipe, helpersDone, lockHolder, todo,
                 nested>>

\* --- Helper.Copy ---------------------------------------------------------------------------

\* Helper.Copy is called with ctx live or cancelled: resultCh is made and the
\* goroutine around io.Copy started.
HelperCopy(data, c) ==
  /\ copyCall.task = "none"
  /\ copyCall' = [NoCopyCall EXCEPT !.src = data, !.ctx = c,
                                    !.canceledAtCall = (c = "canceled"),
                                    !.task = "copying"]
  /\ UNCHANGED <<boot, deviceID, ac4Channels, activeStreams, ffmpegProcesses,
                 connectionActivity, pc, channel, reqDone, watcher, ffWatcher, cmd,
                 copier, delivered, written, monPc, inactiveChannels, reaped, result,
                 httpStatus, proc, ac4ErrorCount, consecutiveErrors, lastErrorTime,
                 clock, shutdownAt, sweptStale, HDHRIP, apiReq, apiOut, given, cfg,
                 statusOut, urlPath, fresh, stderrPipe, helpersDone, lockHolder,
                 todo, nested>>

\* io.Copy in the goroutine: the next byte is read from src and written to
\* dst.
HelperCopyByte ==
  /\ copyCall.task = "copying"
  /\ Len(copyCall.dst) < Len(copyCall.src)
  /\ copyCall' = [copyCall EXCEPT !.dst = Append(@, copyCall.src[Len(@) + 1])]
  /\ UNCHANGED <<boot, deviceID, ac4Channels, activeStreams, ffmpegProcesses,
                 connectionActivity, pc, channel, reqDone, watcher, ffWatcher, cmd,
                 copier, delivered, written, monPc, inactiveChannels, reaped, result,
                 httpStatus, proc, ac4ErrorCount, consecutiveErrors, lastErrorTime,
                 clock, shutdownAt, sweptStale, HDHRIP, apiReq, apiOut, given, cfg,
                 statusOut, urlPath, fresh, stderrPipe, helpersDone, lockHolder,
                 todo, nested>>

\* io.Copy returns at the end of src: resultCh <- result{n, err}.
HelperCopyEnd ==
  /\ copyCall.task = "copying"
  /\ Len(copyCall.dst) = Len(copyCall.src)
  /\ copyCall' = [copyCall EXCEPT !.task = "done",
                                  !.resultCh = [n |-> Len(copyCall.dst), err |-> "nil"]]
  /\ UNCHANGED <<boot, deviceID, ac4Channels, activeStreams, ffmpegProcesses,
                 connectionActivity, pc, channel, reqDone, watcher, ffWatcher, cmd,
                 copier, delivered, written, monPc, inactiveChannels, reaped, result,
                 httpStatus, proc, ac4ErrorCount, consecutiveErrors, lastErrorTime,
                 clock, shutdownAt, sweptStale, HDHRIP, apiReq, apiOut, given, cfg,
                 statusOut, urlPath, fresh, stderrPipe, helpersDone, lockHolder,
                 todo, nested>>

\* The caller cancels ctx.
HelperCancel ==
  /\ copyCall.task # "none"
  /\ copyCall.ctx = "live"
  /\ copyCall' = [copyCall EXCEPT !.ctx = "canceled"]
  /\ UNCHANGED <<boot, deviceID, ac4Channels, activeStreams, ffmpegProcesses,
                 connectionActivity, pc, channel, reqDone, watcher, ffWatcher, cmd,
                 copier, delivered, written, monPc, inactiveChannels, reaped, result,
                 httpStatus, proc, ac4ErrorCount, consecutiveErrors, lastErrorTime,
                 clock, shutdownAt, sweptStale, HDHRIP, apiReq, apiOut, given, cfg,
                 statusOut, urlPath, fresh, stderrPipe, helpersDone, lockHolder,
                 todo, nested>>

\* select, case <-ctx.Done(): return 0, ctx.Err().
HelperSelectDone ==
  /\ copyCall.task # "none"
  /\ copyCall.ret = NoReturn
  /\ copyCall.ctx = "canceled"
  /\ copyCall' = [copyCall EXCEPT !.ret = [n |-> 0, err |-> "context canceled"]]
  /\ UNCHANGED <<boot, deviceID, ac4Channels, activeStreams, ffmpegProcesses,
                 connectionActivity, pc, channel, reqDone, watcher, ffWatcher, cmd,
                 copier, delivered, written, monPc, inactiveChannels, reaped, result,
                 httpStatus, proc, ac4ErrorCount, consecutiveErrors, lastErrorTime,
                 clock, shutdownAt, sweptStale, HDHRIP, apiReq, apiOut, given, cfg,
                 statusOut, urlPath, fresh, stderrPipe, helpersDone, lockHolder,
                 todo, nested>>

\* select, case res := <-resultCh: return res.n, res.err.  When both cases
\* are ready select takes either.
HelperSelectResult ==
  /\ copyCall.ret = NoReturn
  /\ copyCall.resultCh # NoReturn
  /\ copyCall' = [copyCall EXCEPT !.ret = copyCall.resultCh, !.resultCh = NoReturn]
  /\ UNCHANGED <<boot, deviceID, ac4Channels, activeStreams, ffmpegProcesses,
                 connectionActivity, pc, channel, reqDone, watcher, ffWatcher, cmd,
                 copier, delivered, written, monPc, inactiveChannels, reaped, result,
                 httpStatus, proc, ac4ErrorCount, consecutiveErrors, lastErrorTime,
                 clock, shutdownAt, sweptStale, HDHRIP, apiReq, apiOut, given, cfg,
                 statusOut, urlPath, fresh, stderrPipe, helpersDone, lockHolder,
                 todo, nested>>

HelperStep ==
  \/ \E data \in Sources, c \in {"live", "canceled"} : HelperCopy(data, c)
  \/ HelperCopyByte
  \/ HelperCopyEnd
  \/ HelperCancel
  \/ HelperSelectDone
  \/ HelperSelectResult

\* --- the specification -----------------------------------------------------------------------

SessionStep(s) ==
  \/ \E c \in Channels : Request(s, c)
  \/ SetupStamp(s)
  \/ \E err \in {"failed to fetch stream", "invalid response from HDHomeRun"} :
       SetupFail(s, err)
  \/ SetupOk(s)
  \/ ActivityTick(s)
  \/ CopyCtxDone(s)
  \/ \E res \in {"eof", "write_error", "read_error"} : CopyResult(s, res)
  \/ CopyChunk(s)
  \/ ClientDisconnect(s)
  \/ cleanupStream(s)
  \/ WatcherFire(s)
  \/ FFWatcherFire(s)
  \/ \E path \in SessionPaths : FFStartFail(s, path)
  \/ FFStart(s)
  \/ FFRegister(s)
  \/ FFWait(s)
  \/ FFDefer(s)
  \/ CtxKill(s)
  \/ \E st \in {"exited", "failed"} : ChildExit(s, st)

MonitorStep ==
  \/ Sweep
  \/ \E c \in Channels : MonitorStop(c)
  \/ MonitorExit

MainStep ==
  \/ Shutdown
  \/ ListenersShutdown

\* --- the API proxy: streamResponse and the rewriting of response bodies ----------------

\* The rune at the head of s and the number of bytes it takes
\* (utf8.DecodeRuneInString): a byte that begins no valid encoding is one
\* U+FFFD.
headRune(s) ==
  IF Len(s) >= 2 /\ s[1] = "xC3" /\ s[2] = "xA9" THEN [r |-> "U+00E9", size |-> 2]
  ELSE IF Len(s) >= 3 /\ s[1] = "xEF" /\ s[2] = "xBF" /\ s[3] = "xBD"
    THEN [r |-> "U+FFFD", size |-> 3]
  ELSE IF s[1] \in {"xC3", "xA9", "xFF", "xEF", "xBF", "xBD"} THEN [r |-> "U+FFFD", size |-> 1]
  ELSE [r |-> s[1], size |-> 1]

\* []rune(s).
RECURSIVE runes(_)
runes(s) ==
  IF Len(s) = 0 THEN <<>>
  ELSE <<headRune(s).r>> \o runes(SubSeq(s, headRune(s).size + 1, Len(s)))

\* string(runes): every rune in its UTF-8 encoding.
RECURSIVE encode(_)
encode(rs) ==
  IF Len(rs) = 0 THEN <<>>
  ELSE (CASE Head(rs) = "U+00E9" -> <<"xC3", "xA9">>
          [] Head(rs) = "U+FFFD" -> <<"xEF", "xBF", "xBD">>
          [] OTHER -> <<Head(rs)>>) \o encode(Tail(rs))

\* The loop of ReverseDeviceID: runes[i], runes[j] = runes[j], runes[i].
reverse(rs) == [i \in 1..Len(rs) |-> rs[Len(rs) + 1 - i]]

\* ReverseDeviceID for the device id s.
reverseString(s) == encode(reverse(runes(s)))

\* A decoder that hands on the bytes of a string as they are.
jsonStringRaw(raw) == raw

\* encoding/json decoding the string DeviceID of the discovery body: bytes
\* that are not UTF-8 are replaced by U+FFFD.
jsonString(raw) == encode(runes(raw))

\* p.ReverseDeviceID: the runes of the device id in reverse order.
ReverseDeviceID == reverseString(deviceID)

\* strings.Index(s, sep) for a separator of one character, from 1; 0 for none.
Index(s, sep) ==
  IF \E k \in 1..Len(s) : s[k] = sep
  THEN CHOOSE k \in 1..Len(s) : s[k] = sep /\ \A j \in 1..(k - 1) : s[j] # sep
  ELSE 0

\* strings.Split(s, sep) for a separator of one character.
RECURSIVE Split(_, _)
Split(s, sep) ==
  IF Index(s, sep) = 0 THEN <<s>>
  ELSE <<SubSeq(s, 1, Index(s, sep) - 1)>> \o Split(SubSeq(s, Index(s, sep) + 1, Len(s)), sep)

\* hostName, hostPort and hostWithPort of transformResponseBody.
hostName(host) == Split(host, ":")[1]

hostPort(host) == IF Len(Split(host, ":")) > 1 THEN Split(host, ":")[2] ELSE <<"8", "0">>

hostWithPort(host) == IF hostPort(host) = <<"8", "0">> THEN hostName(host) ELSE host

Port5004 == <<":", "5", "0", "0", "4">>

hdhrIPWithPort == HDHRIP \o Port5004

\* A replacement that keeps the port of the Host header.
hostWithPortAnd5004(host) == hostWithPort(host) \o Port5004

hostNameWithPort(host) == hostName(host) \o Port5004

AC4 == <<"A", "C", "4">>

AC3 == <<"A", "C", "3">>

\* i <= len(content)-len(old) && content[i:i+len(old)] == old, for i from 1.
hasAt(content, i, old) ==
  /\ i + Len(old) - 1 <= Len(content)
  /\ SubSeq(content, i, i + Len(old) - 1) = old

\* The loop of transformResponseBody from position i: what it writes to result
\* from there on.
RECURSIVE transformFrom(_, _, _)
transformFrom(content, host, i) ==
  IF i > Len(content) THEN <<>>
  ELSE IF hasAt(content, i, deviceID)
    THEN ReverseDeviceID \o transformFrom(content, host, i + Len(deviceID))
  ELSE IF hasAt(content, i, hdhrIPWithPort)
    THEN hostNameWithPort(host) \o transformFrom(content, host, i + Len(hdhrIPWithPort))
  ELSE IF hasAt(content, i, HDHRIP)
    THEN IF i + Len(HDHRIP) <= Len(content) /\ content[i + Len(HDHRIP)] = ":"
         THEN <<content[i]>> \o transformFrom(content, host, i + 1)
         ELSE hostWithPort(host) \o transformFrom(content, host, i + Len(HDHRIP))
  ELSE IF hasAt(content, i, AC4)
    THEN AC3 \o transformFrom(content, host, i + 3)
  ELSE <<content[i]>> \o transformFrom(content, host, i + 1)

transformResponseBody(body, host) == transformFrom(body, host, 1)

\* strings.NewReplacer(...).Replace(line) from position i: at each position
\* the first pair, in argument order, whose old string is there is applied.
RECURSIVE replaceFrom(_, _, _)
replaceFrom(line, host, i) ==
  IF i > Len(line) THEN <<>>
  ELSE IF hasAt(line, i, deviceID)
    THEN ReverseDeviceID \o replaceFrom(line, host, i + Len(deviceID))
  ELSE IF hasAt(line, i, hdhrIPWithPort)
    THEN hostNameWithPort(host) \o replaceFrom(line, host, i + Len(hdhrIPWithPort))
  ELSE IF hasAt(line, i, AC4)
    THEN AC3 \o replaceFrom(line, host, i + 3)
  ELSE <<line[i]>> \o replaceFrom(line, host, i + 1)

\* dropCR of bufio.ScanLines: a trailing "\r" is taken off the line.
dropCR(line) ==
  IF Len(line) > 0 /\ line[Len(line)] = "\r" THEN SubSeq(line, 1, Len(line) - 1) ELSE line

\* scanner.Scan() with bufio.ScanLines, over the whole input: the lines
\* without their ends; an unterminated last line counts when it is not
\* empty.  Every line is taken to fit the scanner's buffer of 256 KiB.
RECURSIVE ScanLines(_)
ScanLines(data) ==
  IF Len(data) = 0 THEN <<>>
  ELSE IF Index(data, "\n") = 0 THEN <<dropCR(data)>>
  ELSE <<dropCR(SubSeq(data, 1, Index(data, "\n") - 1))>>
         \o ScanLines(SubSeq(data, Index(data, "\n") + 1, Len(data)))

\* The writes of streamWithLimitedTransformation for lines: each replaced
\* line followed by "\n".
RECURSIVE writeLines(_, _)
writeLines(lines, host) ==
  IF Len(lines) = 0 THEN <<>>
  ELSE replaceFrom(Head(lines), host, 1) \o <<"\n">> \o writeLines(Tail(lines), host)

streamWithLimitedTransformation(body, host) == writeLines(ScanLines(body), host)

\* streamResponse: a body that is not text-like is copied as it is; a
\* text-like one is rewritten in memory when its declared length is below
\* maxInMemorySize or absent, and line by line otherwise.
streamResponse(q) ==
  IF ~q.text THEN q.body
  ELSE IF q.length = "small" THEN transformResponseBody(q.body, q.host)
  ELSE streamWithLimitedTransformation(q.body, q.host)

\* The tokens the bodies of the tuner are put together from.
Pieces == {deviceID, HDHRIP, Port5004, <<":">>, AC4, <<"0">>, <<" ">>, <<"\n">>, <<"\r">>}

RECURSIVE Composed(_)
Composed(n) ==
  IF n = 0 THEN {<<>>}
  ELSE Composed(n - 1) \cup {b \o p : b \in Composed(n - 1), p \in Pieces}

\* The body of the rewriting example.
ExampleBody == 
  <<"d", "e", "v", " ", "A", "B", "C", "D", "E", "F", "1", "2", " ", "a", "t", " ", "1", "9", "2", ".", "1", "6", "8", ".", "1", ".", "1", "0", "0", ":", "5", "0", "0", "4", " ", "c", "o", "d", "e", "c", " ", "A", "C", "4">>

Bodies == Composed(MaxPieces) \cup {ExampleBody}

\* ProxyRequest, HandleAppRequest: executeProxyRequest forwards the request to
\* the tuner and streamResponse writes the answer to the client.
ProxyRequest(q) ==
  /\ boot = "serving"
  /\ alive
  /\ apiReq' = q
  /\ apiOut' = streamResponse(q)
  /\ UNCHANGED <<boot, deviceID, ac4Channels, activeStreams, ffmpegProcesses,
                 connectionActivity, pc, channel, reqDone, watcher, ffWatcher, cmd,
                 copier, delivered, written, monPc, inactiveChannels, reaped, result,
                 httpStatus, proc, ac4ErrorCount, consecutiveErrors, lastErrorTime,
                 clock, shutdownAt, sweptStale, HDHRIP, given, cfg, copyCall,
                 statusOut, urlPath, fresh, stderrPipe, helpersDone, lockHolder,
                 todo, nested>>

\* The goroutines run until the process exits.
Next ==
  \/ alive /\ \E s \in Sessions : SessionStep(s)
  \/ alive /\ MonitorStep
  \/ MainStep
  \/ alive /\ Tick
  \/ alive /\ \E s \in Sessions : \E l \in Lines : StderrLine(s, l)
  \/ Elapse
  \/ ShutdownReturns
  \/ \E d \in Discoveries : InitializeProxy(d)
  \/ \E b \in Bodies, h \in Hosts, x \in BOOLEAN, n \in {"small", "large"} :
       ProxyRequest([body |-> b, host |-> h, text |-> x, length |-> n])
  \/ \E f \in FlagSets, env \in Environments : LoadConfig(f, env)
  \/ HelperStep
  \/ Status
  \/ \E s \in Sessions, path \in UrlPaths : Rejected(s, path)
  \/ \E s \in Sessions, l \in Lines : StderrWrite(s, l)
  \/ \E s \in Sessions : StderrRead(s)
  \/ \E s \in Sessions, why \in {"context", "upstream", "broken pipe"} : StdinCopyExit(s, why)
  \/ \E s \in Sessions : StderrExit(s)
  \/ \E t \in Threads : \E script \in Scripts(t) : Spawn(t, script)
  \/ \E t \in Threads : LockStep(t)
  \/ \E t \in Threads : UnlockStep(t)

Spec == Init /\ [][Next]_vars

\* Spec has several million states.  The specifications below restrict
\* it to what a question needs: every behaviour of either is a behaviour of Spec.

\* Two requests, in a run where no stamp grows old and no signal arrives.
NextStreams == \E s \in Sessions : SessionStep(s)

SpecStreams == Init /\ [][NextStreams]_vars

\* One request, with the monitor, the passing of time and the shutdown.
NextOne ==
  \/ SessionStep(1)
  \/ MonitorStep
  \/ MainStep
  \/ Tick

SpecOne == Init /\ [][NextOne]_vars

\* One request and the whole shutdown, to the exit of the process, on a clock
\* of ten-second units.
NextExit ==
  \/ alive /\ SessionStep(1)
  \/ MainStep
  \/ alive /\ MonitorExit
  \/ Elapse
  \/ ShutdownReturns

SpecExit == Init /\ [][NextExit]_vars

\* One request whose child writes to its stderr, on a clock of ten-second
\* units.
NextStderr ==
  \/ alive /\ SessionStep(1)
  \/ alive /\ \E l \in Lines : StderrLine(1, l)
  \/ Elapse

SpecStderr == Init /\ [][NextStderr]_vars

\* One request, for every map the lineup fetch can leave.
InitAnyLineup == \E lineup \in Lineups : InitWith(lineup)

NextDispatch == SessionStep(1)

SpecDispatch == InitAnyLineup /\ [][NextDispatch]_vars

\* The startup of main from device discovery on, then one request.
InitBoot == InitAt("discover", fullLineup)

NextBoot ==
  \/ \E d \in Discoveries : InitializeProxy(d)
  \/ boot = "serving" /\ SessionStep(1)

SpecBoot == InitBoot /\ [][NextBoot]_vars

\* --- the claims ------------------------------------------------------------

\* The session holds a resource: an open upstream stream or a running child.
holdsResources(s) == bodyOpen(s) \/ cmd[s] = "running"

\* The session's entry is in the registry.
inRegistry(s) == channel[s] # NoChannel /\ activeStreams[channel[s]] = s

\* C1: at most one live session per channel: at no time do two sessions for the
\* same channel both hold resources (an open upstream stream or a running
\* child), even when the second request arrives while the first still streams.
C1_OneLiveSessionPerChannel ==
  \A s, t \in Sessions :
    (s # t /\ channel[s] = channel[t]) => ~(holdsResources(s) /\ holdsResources(t))

\* C2: when a request is registered for a channel that already has a
\* registered session, that prior session is cancelled (its context is done,
\* which stops its upstream read and its child) before the new one is
\* registered.
C2_PriorSessionCancelled ==
  [][\A s \in Sessions : \A c \in Channels :
       (Request(s, c) /\ activeStreams[c] # NoSession)
         => ctxDone(activeStreams[c])]_vars

\* C3: after a second request for a channel that has a live session, the entry
\* of the channel belongs to the second request: no teardown step of the first
\* session (its deferred cleanup, its disconnect path, its watchers) removes
\* the entry of the second.
C3_TeardownKeepsSuccessorEntry ==
  [][\A s, t \in Sessions :
       (s < t /\ inRegistry(t) /\ SessionStep(s)) => inRegistry(t)']_vars

\* C4: every registered session is removed from the registry when it
\* terminates, whatever the cause: no cause leaves its entry in place once its
\* handler has returned.
C4_RemovedOnTermination ==
  \A s \in Sessions : pc[s] = "done" => ~inRegistry(s)

\* The termination of the child is under way: it has been killed, its context
\* is done (exec.CommandContext kills it), or the defers of startFFmpeg run.
childStopping(s) == cmd[s] # "running" \/ clientCtxDone(s) \/ pc[s] = "ff_defer"

\* C5: whenever a transcoded session has left the registry (by its own
\* teardown, StopActiveStream, the sweep, or StopAllTranscoding at shutdown),
\* its child stops within a bounded time: no child keeps running, with
\* nothing under way to stop it, after its session has been removed.
C5_ChildStopsWithSession ==
  \A s \in Sessions :
    (pc[s] \in {"ff_copy", "ff_wait", "ff_defer", "cleanup", "done"} /\ ~inRegistry(s))
      => childStopping(s)

\* The upstream body of the session has been signalled to close: the context
\* of the upstream request is done, or the body is closed.
upstreamSignalled(s) == ctxDone(s) \/ ~bodyOpen(s)

\* C6: for every removal of a session from the registry, the upstream body
\* and, for a transcoded session, the child have been signalled to close by
\* the time the entry is seen to be gone.
C6_SignalledBeforeRemoval ==
  [][\A s \in Sessions :
       (inRegistry(s) /\ activeStreams'[channel[s]] = NoSession)
         => (upstreamSignalled(s)' /\ childStopping(s)')]_vars

\* The session has reached Terminated: the handler has returned (its copy loop
\* stopped and the upstream body closed) and its child is not running.
Terminated(s) == pc[s] = "done" /\ cmd[s] # "running"

\* The stamp of the session is older than maxInactivityDuration.
stale(s) == channel[s] # NoChannel /\ inactive(connectionActivity[channel[s]])

\* C7: if the stamp of a session is older than maxInactivityDuration at two
\* consecutive sweeps of the monitor, the session has reached Terminated
\* between those sweeps, direct and transcoded sessions alike.
C7_StaleSessionTerminated ==
  [][Sweep => \A s \in sweptStale : stale(s) => Terminated(s)]_vars

\* The stamp of the channel is set to the current time in this step.
stamped(c) == connectionActivity[c] # 0 /\ connectionActivity'[c] = 0

\* C8: once a session is set up, its stamp is advanced only when bytes have
\* been delivered to its client: while the client accepts no bytes the stamp
\* does not advance.
C8_StampOnlyOnDelivery ==
  [][\A s \in Sessions :
       (inCopyLoop(s) /\ stamped(channel[s])) => delivered'[s] > delivered[s]]_vars

\* The monitor or the shutdown stops the session in this step.
stoppedFromOutside(s) ==
  \/ inRegistry(s) /\ MonitorStop(channel[s])
  \/ inRegistry(s) /\ Shutdown

\* C9: cancellation is hierarchical: the cancellation of the client's request
\* cancels the session and the upstream request, and stopping a session from
\* outside (the monitor, the shutdown) cancels its upstream request as well.
C9_HierarchicalCancellation ==
  [][\A s \in Sessions :
       /\ reqDone[s] => (ctxDone(s) /\ clientCtxDone(s) /\ ffCtxDone(s))
       /\ (bodyOpen(s) /\ stoppedFromOutside(s)) => ctxDone(s)']_vars

\* C10: on SIGINT/SIGTERM, before the shutdown of the listeners begins, every
\* session in the registry that holds an upstream stream or a child is
\* cancelled, which is what makes it close the stream and terminate the child.
C10_ShutdownCancelsSessions ==
  [][\A s \in Sessions :
       (Shutdown /\ inRegistry(s) /\ holdsResources(s)) => ctxDone(s)']_vars

\* Some request is still being served.
inFlight == \E s \in Sessions : live(s)

\* C11: after the signal the listeners get a deadline of 10 seconds counted
\* from the start of the shutdown, during which the requests in flight may
\* drain: the process does not exit with a request in flight before 10
\* seconds have passed since the signal.
C11_DeadlineFromShutdownStart ==
  [][(ShutdownReturns /\ inFlight) => clock - shutdownAt >= ShutdownTimeout]_vars

\* startFFmpeg returns (its defers start to run) in this step.
ffReturns(s) == pc[s] \in {"ff_copy", "ff_wait"} /\ pc'[s] = "ff_defer"

\* The deferred teardown of startFFmpeg has run in this step.
ffTornDown(s) == pc[s] = "ff_defer" /\ pc'[s] = "cleanup"

\* C12: on every exit path of a transcoded session the adapter signals the
\* child to terminate, waits for the child to exit, and removes the pid from
\* the registry: startFFmpeg returns only from cmd.Wait(), and its teardown
\* leaves the child signalled and no pid of the session registered.
C12_ChildReapedOnEveryExit ==
  [][\A s \in Sessions :
       /\ ffReturns(s) => pc[s] = "ff_wait"
       /\ ffTornDown(s) => (cmd'[s] # "running" /\ ffmpegProcesses'[channel[s]] # s)]_vars

\* The stderr reader of session s takes a line in this step.
readsLine(s) == \E l \in Lines : (isAC4Line(l) \/ isCriticalLine(l)) /\ StderrLine(s, l)

\* C13: no AC4 diagnostic line written by the child, at any count or rate, and
\* no other "Error" line, causes the session to be cancelled, the child to be
\* killed, or the registry entry to be removed.
C13_DiagnosticsNeverStopSession ==
  [][\A s \in Sessions : readsLine(s) =>
       /\ alive'
       /\ ctxDone(s)' = ctxDone(s)
       /\ cmd'[s] = cmd[s]
       /\ activeStreams' = activeStreams]_vars

\* startFFmpeg returns in this step, with result'[s].
returns(s) == result[s] = NoResult /\ result'[s] # NoResult

readsAC4Line(s) == \E l \in Lines : isAC4Line(l) /\ StderrLine(s, l)

\* More than the reset interval has passed since the previous AC4 diagnostic
\* of session s.
idleSincePrevious(s) ==
  lastErrorTime[s] # NoStamp /\ clock - lastErrorTime[s] > errorResetInterval

\* C15: for every AC4 diagnostic line observed on the child's stderr the total
\* counter of the session increases by exactly 1, and its consecutive counter
\* increases by 1 or, when more than the 30 s reset interval has passed since
\* the previous AC4 diagnostic, becomes 1.
C15_CountersPerDiagnostic ==
  [][\A s \in Sessions : readsAC4Line(s) =>
       /\ ac4ErrorCount'[s] = ac4ErrorCount[s] + 1
       /\ consecutiveErrors'[s] =
            IF idleSincePrevious(s) THEN 1 ELSE consecutiveErrors[s] + 1]_vars

\* C15: a second diagnostic that came after the reset interval: two counted,
\* one in a row.
C15_Witness ==
  \E s \in Sessions : ac4ErrorCount[s] = 2 /\ consecutiveErrors[s] = 1

\* CopyWithActivityUpdate returns to its caller, in this step, a write error of
\* io.Copy that contains "connection reset by peer" or "broken pipe".
disconnectReturned(s) == inCopyLoop(s) /\ CopyResult(s, "write_error")

\* The deferred teardown of the session is what runs next.
tearingDown(s) == pc[s] \in {"ff_defer", "cleanup"}

\* C16: a client write error whose message contains "connection reset by
\* peer" or "broken pipe" is classified as a client disconnect: the session
\* returns success (no error is returned to the router) and teardown still
\* runs.
C16_DisconnectIsSuccess ==
  [][\A s \in Sessions : disconnectReturned(s) =>
       (result'[s] = "nil" /\ tearingDown(s)' /\ ~inRegistry(s)')]_vars

\* C16: a transcoded session that returned nil for a disconnect: its child was
\* killed by StopActiveStream and cmd.Wait() was not reached.
C16_Witness ==
  \E s \in Sessions :
    /\ pc[s] = "ff_defer" /\ reqDone[s]
    /\ cmd[s] = "killed" /\ ac4ErrorCount[s] = 0
    /\ result[s] = "nil"

\* C17: when the request context of the client is cancelled mid-stream the
\* session treats it as a client disconnect, as normal completion: a session
\* that leaves its copy loop with its request cancelled returns no error to
\* the router.
C17_CancelIsNormalCompletion ==
  [][\A s \in Sessions : (inCopyLoop(s) /\ reqDone[s] /\ returns(s)) =>
       result'[s] \notin Errors]_vars

\* setupStreamConnection returns an error of the tuner in this step.
upstreamFails(s) ==
  \E err \in {"failed to fetch stream", "invalid response from HDHomeRun"} : SetupFail(s, err)

\* C18: if the tuner answers the stream request with a status other than 200,
\* or the connection to it fails, the client receives HTTP 502 and the session
\* is torn down before the handler returns: no registry entry and no activity
\* stamp created by the request remain.
C18_UpstreamFailureTornDown ==
  [][\A s \in Sessions : upstreamFails(s) =>
       /\ httpStatus'[s] = 502
       /\ ~inRegistry(s)'
       /\ connectionActivity'[channel[s]] = NoStamp]_vars

\* Validation of the executable fails and startFFmpeg returns in this step.
validationFails(s) ==
  \E path \in SessionPaths : ValidateExecutable(path) # "nil" /\ FFStartFail(s, path)

\* C19: if the validation of the configured path of the transcoder executable
\* fails when a transcoded session starts, no subprocess is spawned, the
\* session fails with a configuration error, and the client receives HTTP
\* 500.
C19_InvalidExecutableFails ==
  [][\A s \in Sessions :
       /\ validationFails(s) => result'[s] = "invalid FFmpeg executable"
       /\ result'[s] = "invalid FFmpeg executable" =>
            (cmd'[s] = "none" /\ httpStatus'[s] = 500)]_vars

\* C19: a transcoded session that failed on the validation of the executable.
C19_Witness ==
  \E s \in Sessions :
    /\ isAC4Channel(channel[s]) /\ pc[s] = "cleanup"
    /\ result[s] = "invalid FFmpeg executable"
    /\ cmd[s] = "none" /\ httpStatus[s] = 500

\* The map records the channel as not needing transcoding.
recordedDirect(c) == c \in DOMAIN ac4Channels /\ ~ac4Channels[c]

\* The session was dispatched to DirectStreamChannel, to TranscodeChannel.
onDirectPath(s) == pc[s] = "direct_copy"
onTranscodedPath(s) == pc[s] \in {"ff_start", "ff_register", "ff_copy", "ff_wait", "ff_defer"}

\* C20: a request for a channel that is not present in the capability map
\* (every channel when the map is empty after a failed lineup fetch) is
\* dispatched to the transcoded path; a channel is dispatched to the direct
\* path only if the map records it as not needing transcoding.
C20_UnknownChannelTranscoded ==
  \A s \in Sessions :
    /\ onDirectPath(s) => recordedDirect(channel[s])
    /\ (channel[s] \notin DOMAIN ac4Channels /\ bodyOpen(s) /\ pc[s] # "cleanup")
         => onTranscodedPath(s)

\* C20: with an empty map a request is streamed through a child.
C20_Witness ==
  \E s \in Sessions : DOMAIN ac4Channels = {} /\ pc[s] = "ff_copy" /\ cmd[s] = "running"

\* Device discovery fails: the tuner is unreachable or answers with an error.
discoveryFails(d) == d.conn # "ok" \/ d.status # 200

\* C21: if device discovery fails at boot (the tuner is unreachable or answers
\* with an error) startup still succeeds and the gateway uses the fixed
\* fallback device id "00ABCDEF"; the failure is not fatal.
C21_DiscoveryFailureNotFatal ==
  [][\A d \in Discoveries : (discoveryFails(d) /\ InitializeProxy(d)) =>
       (boot' = "serving" /\ deviceID' = DefaultDeviceID)]_vars

\* The monitor stops the stream of an inactive channel in this step.
monitorStops(c) == MonitorStop(c) /\ activeStreams[c] # NoSession

\* C22: the activity monitor never mutates session state or the registry
\* directly: for an idle session it only invokes the cancel handle of that
\* session, and the registry entry is removed by the session's own teardown.
C22_MonitorOnlyCancels ==
  [][\A c \in Channels : monitorStops(c) =>
       /\ activeStreams' = activeStreams
       /\ ffmpegProcesses' = ffmpegProcesses
       /\ cmd' = cmd
       /\ ctxDone(activeStreams[c])']_vars

\* The child of session t is signalled to terminate in this step.
signalled(t) == cmd[t] = "running" /\ cmd'[t] = "killed"

\* C23: each child process is owned by exactly one session: a child is only
\* ever signalled to terminate on behalf of the session that started it,
\* never by the teardown, the disconnect watcher or the eviction of a
\* different session on the same channel.
C23_ChildOwnedByOneSession ==
  [][\A s, t \in Sessions : (s # t /\ SessionStep(s)) => ~signalled(t)]_vars

\* StopActiveStream calls os.FindProcess(pid) and process.Kill() for the pid
\* that session t registered, in this step.
killIssued(t) ==
  \E c \in Channels :
    /\ activeStreams[c] # NoSession /\ activeStreams'[c] = NoSession
    /\ ffmpegProcesses[c] = t /\ ffmpegProcesses'[c] = NoSession

\* C24: termination of a child is idempotent and never touches a dead child:
\* when the disconnect watchers, the disconnect path, the monitor and the
\* deferred cleanup all try to terminate the same child, no kill is issued
\* against its process id after it has exited and been reaped.
C24_NoKillAfterReap ==
  [][\A t \in Sessions : killIssued(t) => ~reaped[t]]_vars

\* The session has been terminated and removed.
gone(s) == Terminated(s) /\ ~inRegistry(s)

\* C25: session state transitions are one-way and Terminated is absorbing:
\* once a session has been terminated and removed, no later event (an
\* activity callback, a watcher firing, a late copy result) re-creates its
\* registry entry or its activity stamp, and its streaming never resumes.
C25_TerminatedIsAbsorbing ==
  [][\A s \in Sessions : gone(s) =>
       /\ gone(s)'
       /\ delivered'[s] = delivered[s]
       /\ SessionStep(s) => connectionActivity' = connectionActivity]_vars

\* C25: a terminated and removed session whose copy loop was left on
\* ctx.Done(), after its watcher has fired and its copy result has come.
C25_Witness ==
  \E s \in Sessions :
    /\ gone(s) /\ result[s] = "stream interrupted"
    /\ watcher[s] = "done" /\ copier[s] = "none"

\* --- C26 ----------------------------------------------------------------------------------

\* C26: once shutdown has begun (t.cancel() has run in StopAllTranscoding),
\* the activity monitor starts no further sweep.
C26_NoSweepAfterShutdown ==
  [][Sweep => ~monitorCtxDone]_vars

\* --- C27 ----------------------------------------------------------------------------------

\* a is a prefix of b.
isPrefix(a, b) == Len(a) <= Len(b) /\ a = SubSeq(b, 1, Len(a))

InitRewrite == \E ip \in TunerAddresses : InitFor("discover", fullLineup, ip)

NextRewrite ==
  \/ \E d \in Discoveries : InitializeProxy(d)
  \/ /\ apiReq = NoRequest
     /\ \E b \in Bodies, h \in Hosts, x \in BOOLEAN, n \in {"small", "large"} :
          ProxyRequest([body |-> b, host |-> h, text |-> x, length |-> n])

SpecRewrite == InitRewrite /\ [][NextRewrite]_vars

\* The rules of the rewriting in their order of precedence: device id,
\* tuner-address:5004, tuner address standing alone (not followed by ":"),
\* "AC4".
Rules(host) ==
  << [old |-> deviceID, new |-> ReverseDeviceID, alone |-> FALSE],
     [old |-> HDHRIP \o Port5004, new |-> hostName(host) \o Port5004, alone |-> FALSE],
     [old |-> HDHRIP, new |-> hostWithPort(host), alone |-> TRUE],
     [old |-> AC4, new |-> AC3, alone |-> FALSE] >>

\* Rule r matches at position i of content.
matches(content, i, r) ==
  /\ hasAt(content, i, r.old)
  /\ r.alone => ~(i + Len(r.old) <= Len(content) /\ content[i + Len(r.old)] = ":")

\* One pass from left to right from position i: the first rule that matches
\* there is applied and the scan goes on behind the text it replaced; where
\* none matches the character is copied.
RECURSIVE singlePass(_, _, _)
singlePass(content, rules, i) ==
  IF i > Len(content) THEN <<>>
  ELSE IF \E k \in DOMAIN rules : matches(content, i, rules[k])
    THEN LET k == CHOOSE k \in DOMAIN rules :
                    /\ matches(content, i, rules[k])
                    /\ \A j \in 1..(k - 1) : ~matches(content, i, rules[j])
         IN rules[k].new \o singlePass(content, rules, i + Len(rules[k].old))
  ELSE <<content[i]>> \o singlePass(content, rules, i + 1)

ExampleHost == <<"p", "r", "o", "x", "y", ".", "l", "o", "c", "a", "l">>

ExampleOut ==
  <<"d", "e", "v", " ", "2", "1", "F", "E", "D", "C", "B", "A", " ", "a", "t", " ", "p", "r", "o", "x", "y", ".", "l", "o", "c", "a", "l", ":", "5", "0", "0", "4", " ", "c", "o", "d", "e", "c", " ", "A", "C", "3">>

\* The request of the example: device id ABCDEF12, tuner 192.168.1.100,
\* Host proxy.local, a text-like body below 1 MiB.
exampleServed ==
  /\ deviceID = TunerDeviceID /\ HDHRIP = ExampleTuner
  /\ apiReq = [body |-> ExampleBody, host |-> ExampleHost, text |-> TRUE, length |-> "small"]

\* C28: a text-like body rewritten in memory is the result of one pass from
\* left to right in which, at each position, the first matching rule in the
\* order device id, tuner-address:5004, tuner address alone, "AC4" is applied
\* and the replacement is not scanned again; and with device id ABCDEF12,
\* tuner 192.168.1.100 and Host proxy.local the body
\* "dev ABCDEF12 at 192.168.1.100:5004 codec AC4" becomes
\* "dev 21FEDCBA at proxy.local:5004 codec AC3".
C28_SinglePassRewrite ==
  /\ (apiReq # NoRequest /\ apiReq.text /\ apiReq.length = "small")
        => apiOut = singlePass(apiReq.body, Rules(apiReq.host), 1)
  /\ exampleServed => apiOut = ExampleOut

\* C28: the example request has been served.
C28_Witness == exampleServed /\ apiOut = ExampleOut

\* --- C29 ----------------------------------------------------------------------------------

\* The tuner answered with its address and port 5004, a text-like body below
\* 1 MiB, which the rewriting turned into <client_host>:5004.
portTokenRewritten ==
  /\ apiReq # NoRequest /\ apiReq.text /\ apiReq.length = "small"
  /\ apiReq.body = hdhrIPWithPort
  /\ apiOut = hostName(apiReq.host) \o Port5004

\* C29: rewriting the tuner address with port 5004 is idempotent: the rewrite
\* applied again to the rewritten output leaves the <client_host>:5004 token
\* as it is, for every tuner address and every client host.
C29_PortRewriteIdempotent ==
  portTokenRewritten => transformResponseBody(apiOut, apiReq.host) = apiOut

\* --- C30 ----------------------------------------------------------------------------------

\* The tokens the rewriting looks for.
Tokens == {deviceID, hdhrIPWithPort, HDHRIP, AC4}

\* a is a suffix of b.
isSuffix(a, b) == Len(a) <= Len(b) /\ a = SubSeq(b, Len(b) - Len(a) + 1, Len(b))

\* A token is split across lines: its first part ends a line and the rest of
\* it begins the next one.
tokenSplit(body) ==
  \E k \in 1..Len(body) :
    /\ body[k] = "\n"
    /\ \E tok \in Tokens : \E n \in 1..(Len(tok) - 1) :
         /\ isSuffix(SubSeq(tok, 1, n), dropCR(SubSeq(body, 1, k - 1)))
         /\ isPrefix(SubSeq(tok, n + 1, Len(tok)), SubSeq(body, k + 1, Len(body)))

\* C30: for a text-like body of 1 MiB or more in which no token is split
\* across lines, the line-oriented rewrite writes exactly the bytes the
\* single-pass rewrite of the whole body would.
C30_LineOrientedEqualsSinglePass ==
  (apiReq # NoRequest /\ apiReq.text /\ apiReq.length = "large" /\ ~tokenSplit(apiReq.body))
    => apiOut = transformResponseBody(apiReq.body, apiReq.host)

\* --- C31 ----------------------------------------------------------------------------------

\* The startup of main from its flags and environment to the discovery.
InitConfig == InitFor("config", fullLineup, <<>>)

NextConfig ==
  \/ \E f \in FlagSets, env \in Environments : LoadConfig(f, env)
  \/ \E d \in Discoveries : InitializeProxy(d)

SpecConfig == InitConfig /\ [][NextConfig]_vars

\* C31: an option given both as a flag and as an environment variable has
\* the value of the flag.
C31_FlagTakesPrecedence ==
  boot # "config" =>
    /\ (given.flag.hdhrIP # <<>> /\ given.env.HDHR_IP # <<>>)
          => cfg.HDHomeRunIP = given.flag.hdhrIP
    /\ (given.flag.ffmpeg # DefaultFlags.ffmpeg /\ given.env.FFMPEG_PATH # "")
          => cfg.FFmpegPath = given.flag.ffmpeg
    /\ (given.flag.logLevel # DefaultFlags.logLevel /\ given.env.LOG_LEVEL # "")
          => cfg.LogLevel = given.flag.logLevel

\* --- C32 ----------------------------------------------------------------------------------

\* One call of Helper.Copy.
NextHelper == HelperStep

SpecHelper == Init /\ [][NextHelper]_vars

\* C32: Copy called with a context that is already cancelled returns the
\* context's error, context.Canceled, however fast the copy finishes.
C32_CancelledCopyReturnsCanceled ==
  (copyCall.canceledAtCall /\ copyCall.ret # NoReturn)
    => copyCall.ret.err = "context canceled"

\* --- C33 ----------------------------------------------------------------------------------

\* One request and the status page, for every map the lineup fetch can leave.
NextStatus ==
  \/ SessionStep(1)
  \/ Status

SpecStatus == InitAnyLineup /\ [][NextStatus]_vars

\* C33: for every active session /status lists, the reported is_transcoding
\* is whether that session runs on the transcoded path.
C33_StatusReportsPath ==
  [][Status =>
       \A c \in DOMAIN statusOut' :
         (onDirectPath(activeStreams[c]) \/ onTranscodedPath(activeStreams[c]))
           => (statusOut'[c] <=> onTranscodedPath(activeStreams[c]))]_vars

\* --- C34 ----------------------------------------------------------------------------------

\* The DeviceID strings of discovery bodies, as bytes.
RawIds == UNION {[1..n -> RawBytes] : n \in 1..MaxIdLen}

\* Discoveries that succeed, for each of them.
TunerAnswers == [conn : {"ok"}, status : {200}, body : {"json"},
                 id : {jsonString(raw) : raw \in RawIds}]

\* The discovery, then a text-like answer of the tuner that is its device id.
NextReverse ==
  \/ \E d \in TunerAnswers : InitializeProxy(d)
  \/ /\ apiReq = NoRequest
     /\ \E h \in Hosts : ProxyRequest([body |-> deviceID, host |-> h, text |-> TRUE, length |-> "small"])

SpecReverse == InitBoot /\ [][NextReverse]_vars

\* C34: reversing the device id is an involution: the reverse of the
\* reversed id, and of the reversed id a rewritten body carries, is the id.
C34_ReversalIsInvolution ==
  /\ reverseString(reverseString(deviceID)) = deviceID
  /\ (apiReq # NoRequest /\ apiReq.body = deviceID) => reverseString(apiOut) = deviceID

\* C34: a device id with a rune of two bytes and a replaced byte has been
\* written reversed to a client.
C34_Witness ==
  /\ apiReq # NoRequest /\ apiReq.body = deviceID
  /\ \E k \in 1..Len(deviceID) : deviceID[k] = "xC3"
  /\ \E k \in 1..Len(deviceID) : deviceID[k] = "xEF"
  /\ apiOut # deviceID

\* --- requests MediaHandler turns away -------------------------------------------

\* The requests of every kind, without the monitor and the shutdown.
NextPaths ==
  \/ \E s \in Sessions : SessionStep(s)
  \/ \E s \in Sessions, path \in UrlPaths : Rejected(s, path)

SpecPaths == Init /\ [][NextPaths]_vars

\* C35: a request to /auto/v with an empty channel is answered with HTTP 400
\* and creates no session: its handler has returned, the registry and the
\* process table hold no entry of it, it has made no upstream request (no
\* watcher, no copy, no streaming result) and it has no subprocess.
C35_EmptyChannelIsBadRequest ==
  \A s \in Sessions : urlPath[s] = AutoV =>
    /\ httpStatus[s] = 400
    /\ pc[s] = "done"
    /\ channel[s] = NoChannel
    /\ \A c \in Channels : activeStreams[c] # s /\ ffmpegProcesses[c] # s
    /\ watcher[s] = "none" /\ ffWatcher[s] = "none"
    /\ copier[s] = "none" /\ delivered[s] = 0
    /\ result[s] = NoResult
    /\ cmd[s] = "none"

\* An empty-channel request was answered while another session was streaming.
C35_Witness ==
  \E s, p \in Sessions :
    /\ urlPath[s] = AutoV /\ httpStatus[s] = 400
    /\ p # s /\ delivered[p] > 0

\* --- the monitor and a channel that is opened again --------------------------------

\* The channel that is opened twice: one the lineup marks as AC4.
ReopenedChannel == "5.1"

\* A request for that channel whose tuner answers, whose child starts and
\* whose client reads nothing: the steps of its handler, its watchers and its
\* child.
ReopenStep(s) ==
  \/ Request(s, ReopenedChannel)
  \/ SetupStamp(s)
  \/ SetupOk(s)
  \/ ActivityTick(s)
  \/ \E res \in {"eof", "write_error"} : CopyResult(s, res)
  \/ ClientDisconnect(s)
  \/ cleanupStream(s)
  \/ WatcherFire(s)
  \/ FFWatcherFire(s)
  \/ FFStart(s)
  \/ FFRegister(s)
  \/ FFWait(s)
  \/ FFDefer(s)
  \/ CtxKill(s)
  \/ \E st \in {"exited", "failed"} : ChildExit(s, st)

\* Two requests for the same channel, the monitor and the passing of time.
NextReopen ==
  \/ \E s \in Sessions : ReopenStep(s)
  \/ Sweep
  \/ \E c \in Channels : MonitorStop(c)
  \/ Tick

SpecReopen == Init /\ [][NextReopen]_vars

\* C36: the monitor never stops a session that registered or stamped its
\* activity itself within maxInactivityDuration: a stop of the monitor neither
\* removes the registry entry of such a session nor kills its child, whatever
\* stamp an earlier session left on the channel and whenever the sweep ran.
C36_MonitorSparesFreshSession ==
  [][\A c \in Channels : MonitorStop(c) =>
       \A s \in fresh : live(s) =>
         /\ activeStreams[c] = s => activeStreams'[c] = s
         /\ cmd[s] = "running" => cmd'[s] = "running"]_vars

\* --- the exit of the child and the lines in the pipe -------------------------------

\* One request whose child writes to a pipe the reader empties at its own pace.
NextPipe ==
  \/ SessionStep(1)
  \/ \E l \in Lines : StderrWrite(1, l)
  \/ StderrRead(1)

SpecPipe == Init /\ [][NextPipe]_vars

\* C37: when startFFmpeg classifies the exit of the child (the return of
\* cmd.Wait()), every AC4 diagnostic the child wrote has been counted: no AC4
\* diagnostic waits unread in the pipe, so the total is never read as zero
\* while one does.
C37_DiagnosticsCountedBeforeClassification ==
  [][\A s \in Sessions : FFWait(s) =>
       \A i \in 1..Len(stderrPipe[s]) : ~isAC4Line(stderrPipe[s][i])]_vars

\* --- the copy goroutine after the handler ------------------------------------------

\* The handler of the session has returned to net/http.
handlerReturned(s) == pc[s] = "done"

\* io.Copy calls dst.Write on the response writer in this step: the write
\* delivers a chunk, or it fails on a connection that is gone.
writesToResponse(s) == CopyChunk(s) \/ CopyResult(s, "write_error")

\* C38: once the handler of a session has returned, the io.Copy goroutine of
\* CopyWithActivityUpdate performs no write on the response writer, also when
\* the loop was left because its context was cancelled.
C38_NoWriteAfterHandlerReturned ==
  [][\A s \in Sessions : handlerReturned(s) => ~writesToResponse(s)]_vars

\* --- the goroutines of a session after its teardown ----------------------------------

\* One request and the goroutines started for it.
NextTasks ==
  \/ SessionStep(1)
  \/ \E why \in {"context", "upstream", "broken pipe"} : StdinCopyExit(1, why)
  \/ StderrExit(1)

\* The Go scheduler runs every goroutine that can take a step: a watcher whose
\* context is done, the kill of exec.CommandContext, an io.Copy whose source
\* no longer delivers, a stdin copier whose context is done or whose child is
\* dead, a scanner at the end of its pipe.  Nothing makes the tuner, the client
\* or the child act.
FairTasks ==
  \A s \in Sessions :
    /\ WF_vars(WatcherFire(s))
    /\ WF_vars(FFWatcherFire(s))
    /\ WF_vars(CtxKill(s))
    /\ WF_vars(~sourceReadable(s) /\ \E res \in {"eof", "write_error", "read_error"} : CopyResult(s, res))
    /\ WF_vars(\E why \in {"context", "broken pipe"} : StdinCopyExit(s, why))
    /\ WF_vars(StderrExit(s))

SpecTasks == Init /\ [][NextTasks]_vars /\ FairTasks

\* No goroutine started for the session is left: its watchers have fired, its
\* io.Copy has returned, the stdin copier and the stderr reader have returned.
helpersGone(s) ==
  /\ watcher[s] # "waiting" /\ ffWatcher[s] # "waiting"
  /\ copier[s] = "none"
  /\ ~helperRunning(s, "stdin copier") /\ ~helperRunning(s, "stderr reader")

\* C39: after the teardown of a session (its handler has returned) every
\* goroutine started for it terminates: the watchers, the io.Copy of
\* CopyWithActivityUpdate, the stdin copier and the stderr reader; none stays
\* blocked forever.
C39_HelpersTerminate ==
  \A s \in Sessions : handlerReturned(s) ~> helpersGone(s)

\* A transcoded session has returned and all the goroutines it started have.
C39_Witness ==
  \E s \in Sessions :
    /\ handlerReturned(s) /\ helpersStarted(s) /\ helpersGone(s)
    /\ {<<s, "stdin copier">>, <<s, "stderr reader">>} \subseteq helpersDone

\* --- the two mutexes ------------------------------------------------------------------

\* Request handlers, a disconnect watcher, the monitor, main and /status, each
\* started again and again, as far as they lock.
NextLocks ==
  \/ \E t \in Threads : \E script \in Scripts(t) : Spawn(t, script)
  \/ \E t \in Threads : LockStep(t)
  \/ \E t \in Threads : UnlockStep(t)

SpecLocks == Init /\ [][NextLocks]_vars

\* The goroutine has calls to make; it can make the next one now.
unfinished(t) == todo[t] # <<>>
canStep(t) == ENABLED LockStep(t) \/ ENABLED UnlockStep(t)

\* C40: no interleaving of the request handlers, the disconnect watcher, the
\* monitor, main's shutdown and /status deadlocks on t.mutex and
\* t.activityMutex: while a goroutine has a call to make some goroutine can
\* make its next call; the two mutexes are never acquired in both nested
\* orders; and a goroutine that has made all its calls holds no mutex.
C40_NoDeadlockOnMutexes ==
  /\ (\E t \in Threads : unfinished(t)) => (\E u \in Threads : unfinished(u) /\ canStep(u))
  /\ ~(<<"mutex", "activityMutex">> \in nested /\ <<"activityMutex", "mutex">> \in nested)
  /\ \A t \in Threads : ~unfinished(t) => held(t) = {}

\* The monitor, between its sweep and its delete, waits for t.mutex, which a
\* handler holds, while the other handler holds t.activityMutex and the watcher
\* has made all its calls.
C40_Witness ==
  /\ lockHolder["mutex"] \in {"handler 1", "handler 2"}
  /\ unfinished("monitor") /\ Head(todo["monitor"]) = [op |-> "Lock", lock |-> "mutex"]
  /\ lockHolder["activityMutex"] \in {"handler 1", "handler 2"}
  /\ ~unfinished("watcher")

====
